---- MODULE Spec2Model ----
(***************************************************************************)
(* PipSecureEA (src/multi_account_ea.py) and the two simulators            *)
(* (src/us30_simulator.py, src/progressive_tp_simulator.py).               *)
(*                                                                         *)
(* Prices are integers counted in units of 0.00001 (the fifth decimal), so *)
(* that the pip multipliers of the table become integers: 0.0001 is 10,    *)
(* 0.01 is 1000 and 1.0 is 100000.  A comparison of a pip distance with a  *)
(* threshold, d / pip <= n, is computed exactly as d <= n * pip.           *)
(* Times are seconds.                                                      *)
(***************************************************************************)
EXTENDS Integers, Sequences, FiniteSets, TLC

VARIABLES
    book,               \* the broker's open positions, in the broker's order
    orders,             \* the broker's orders (pending and other states)
    market,             \* current price per symbol
    now,                \* time.time()
    test_mode,          \* PipSecureEA.TEST_MODE
    signal_data_cache,  \* ProgressiveTPManager.signal_data_cache: group_id -> tp_levels
    secured_positions,  \* PipSecureEA.secured_positions
    tp1_hit_groups,     \* PipSecureEA.tp1_hit_groups
    tp1_hit_file,       \* lines of logs/<account>/tp1_hit_groups.txt
    requests,           \* the order_send calls of the last check_positions cycle
    key_events,         \* the log_key_event lines of the last cycle
    dispatched,         \* the TP1 dispatch sequences started in the last cycle
    cycle,              \* what the last cycle saw when it started
    running,            \* PipSecureEA.run: the monitoring loop runs, connected
    fn                  \* input and result of the last direct call of a function

vars == <<book, orders, market, now, test_mode, signal_data_cache,
          secured_positions, tp1_hit_groups, tp1_hit_file,
          requests, key_events, dispatched, cycle, running, fn>>

None == "None"

\* None where the code holds a list, a group id, a rank or a price
NoGroup == <<>>
NoGroupId == <<>>
NoIndex == -1
NoPrice == -1

(***************************************************************************)
(* MetaTrader5 constants as the code uses them.                            *)
(***************************************************************************)
ORDER_TYPE_BUY == 0
ORDER_TYPE_SELL == 1

\* Order types and order states are only compared for equality.
ORDER_TYPE_BUY_LIMIT == "ORDER_TYPE_BUY_LIMIT"
ORDER_TYPE_SELL_LIMIT == "ORDER_TYPE_SELL_LIMIT"
ORDER_TYPE_BUY_STOP == "ORDER_TYPE_BUY_STOP"
ORDER_TYPE_SELL_STOP == "ORDER_TYPE_SELL_STOP"
ORDER_TYPE_BUY_STOP_LIMIT == "ORDER_TYPE_BUY_STOP_LIMIT"
ORDER_STATE_STARTED == "ORDER_STATE_STARTED"
ORDER_STATE_PLACED == "ORDER_STATE_PLACED"

\* Trade return codes, and the other ways an order_send call can end.
TRADE_RETCODE_DONE == "DONE"
TRADE_RETCODE_INVALID_STOPS == "INVALID_STOPS"
TRADE_RETCODE_REQUOTE == "REQUOTE"
TRADE_RETCODE_CONNECTION == "CONNECTION"
RetcodeRejected == "REJECTED"       \* any other return code
RetcodeFilling == "FILLING"         \* a rejection whose comment names the filling mode
ResultNone == "NO_RESULT"           \* order_send returned None
ResultException == "EXCEPTION"      \* order_send raised

(***************************************************************************)
(* Strings: substring test, prefix test, upper case, as str.__contains__,  *)
(* str.startswith and str.upper compute them.                              *)
(***************************************************************************)
Contains(s, sub) ==
    \E i \in 1..(Len(s) - Len(sub) + 1) : SubSeq(s, i, i + Len(sub) - 1) = sub

StartsWith(s, prefix) ==
    Len(prefix) <= Len(s) /\ SubSeq(s, 1, Len(prefix)) = prefix

LowerUpper ==
    [c \in {"a", "c", "d", "g", "h", "l", "o", "s", "u", "x"} |->
        CASE c = "a" -> "A" [] c = "c" -> "C" [] c = "d" -> "D" [] c = "g" -> "G"
          [] c = "h" -> "H" [] c = "l" -> "L" [] c = "o" -> "O" [] c = "s" -> "S"
          [] c = "u" -> "U" [] c = "x" -> "X"]

RECURSIVE Upper(_)
Upper(s) ==
    IF Len(s) = 0 THEN s
    ELSE LET c == SubSeq(s, 1, 1)
         IN  (IF c \in DOMAIN LowerUpper THEN LowerUpper[c] ELSE c)
                 \o Upper(SubSeq(s, 2, Len(s)))

\* The order of the characters that occur in the symbols (their code points).
CharCode ==
    [c \in {"0", "2", "3", "4", "A", "C", "D", "E", "G", "J", "L", "O", "P",
            "R", "S", "U", "X", "Y", "a", "h", "s", "x"} |->
        CASE c = "0" -> 48 [] c = "2" -> 50 [] c = "3" -> 51 [] c = "4" -> 52
          [] c = "A" -> 65 [] c = "C" -> 67 [] c = "D" -> 68 [] c = "E" -> 69
          [] c = "G" -> 71 [] c = "J" -> 74 [] c = "L" -> 76 [] c = "O" -> 79
          [] c = "P" -> 80 [] c = "R" -> 82 [] c = "S" -> 83 [] c = "U" -> 85
          [] c = "X" -> 88 [] c = "Y" -> 89 [] c = "a" -> 97 [] c = "h" -> 104
          [] c = "s" -> 115 [] c = "x" -> 120]

\* a < b for strings, as Python compares them.
RECURSIVE StrLess(_, _)
StrLess(a, b) ==
    IF Len(b) = 0 THEN FALSE
    ELSE IF Len(a) = 0 THEN TRUE
    ELSE LET x == CharCode[SubSeq(a, 1, 1)]
             y == CharCode[SubSeq(b, 1, 1)]
         IN  IF x # y THEN x < y
             ELSE StrLess(SubSeq(a, 2, Len(a)), SubSeq(b, 2, Len(b)))

Abs(x) == IF x < 0 THEN -x ELSE x

(***************************************************************************)
(* get_pip_multiplier: the table of __init__ in insertion order, in units  *)
(* of 0.00001.                                                             *)
(***************************************************************************)
pip_multipliers ==
    << <<"JPY", 1000>>, <<"OIL", 1000>>, <<"XAU", 1000>>, <<"US30", 100000>>,
       <<"US100", 100000>>, <<"JP225", 100000>>, <<"GER40", 100000>>,
       <<"UK100", 100000>>, <<"FRA40", 100000>>, <<"AUS200", 100000>>,
       <<"ESP35", 100000>>, <<"EUSTX50", 100000>> >>

PipDefault == 10

PipGold == 1000

PipJpy == 1000

get_pip_multiplier(symbol) ==
    IF Contains(Upper(symbol), "GOLD") THEN PipGold
    ELSE LET hits == {i \in 1..Len(pip_multipliers) :
                         StartsWith(symbol, pip_multipliers[i][1])}
         IN  IF hits # {}
             THEN pip_multipliers[CHOOSE i \in hits : \A j \in hits : i <= j][2]
             ELSE IF Contains(Upper(symbol), "JPY") THEN PipJpy
             ELSE PipDefault

(***************************************************************************)
(* identify_position_groups                                                *)
(***************************************************************************)
time_proximity_threshold == 5

price_proximity_threshold == 10

price_proximity_override == 100

\* key=lambda p: (p.time, p.symbol, p.type), compared as tuples
KeyLess(p, q) ==
    \/ p.time < q.time
    \/ p.time = q.time /\ StrLess(p.symbol, q.symbol)
    \/ p.time = q.time /\ p.symbol = q.symbol /\ p.type < q.type

\* sorted(): stable, so a position goes behind every position that is not greater
RECURSIVE InsertSorted(_, _)
InsertSorted(sorted, p) ==
    IF Len(sorted) = 0 THEN <<p>>
    ELSE IF KeyLess(p, sorted[Len(sorted)])
         THEN Append(InsertSorted(SubSeq(sorted, 1, Len(sorted) - 1), p),
                     sorted[Len(sorted)])
         ELSE Append(sorted, p)

RECURSIVE SortedPositions(_)
SortedPositions(positions) ==
    IF Len(positions) = 0 THEN <<>>
    ELSE InsertSorted(SortedPositions(SubSeq(positions, 1, Len(positions) - 1)),
                      positions[Len(positions)])

PriceThreshold(symbol) ==
    IF \/ symbol \in {"OILCash", "XAUUSDx", "US30Cash", "US100Cash", "JP225Cash",
                      "GER40Cash"}
       \/ Contains(Upper(symbol), "XAU")
       \/ Contains(Upper(symbol), "GOLD")
    THEN price_proximity_override
    ELSE price_proximity_threshold

\* the test of the inner loop: does other_position join the group of position
JoinsGroup(position, other_position) ==
    /\ Abs(other_position.time - position.time) <= time_proximity_threshold
    /\ other_position.symbol = position.symbol
    /\ other_position.type = position.type
    /\ LET pip_multiplier == get_pip_multiplier(position.symbol)
       IN  IF pip_multiplier > 0
           THEN Abs(other_position.price_open - position.price_open)
                    <= PriceThreshold(position.symbol) * pip_multiplier
           ELSE TRUE

\* the inner loop, for j in range(i + 1, len(sorted_positions))
RECURSIVE CollectGroup(_, _, _, _, _)
CollectGroup(sorted, position, j, current_group, processed) ==
    IF j > Len(sorted) THEN [group |-> current_group, processed |-> processed]
    ELSE IF sorted[j].ticket \notin processed /\ JoinsGroup(position, sorted[j])
         THEN CollectGroup(sorted, position, j + 1, Append(current_group, sorted[j]),
                           processed \cup {sorted[j].ticket})
         ELSE CollectGroup(sorted, position, j + 1, current_group, processed)

\* every group is stored, a single position included
StoresGroupAny(current_group) == Len(current_group) >= 1

\* which groups are stored: only those with more than one position
StoresGroup(current_group) == Len(current_group) > 1

\* the outer loop with a counter that is never advanced
RECURSIVE SweepGroupsOneCounter(_, _, _, _, _)
SweepGroupsOneCounter(sorted, i, position_groups, group_counter, processed) ==
    IF i > Len(sorted) THEN position_groups
    ELSE IF sorted[i].ticket \in processed
         THEN SweepGroupsOneCounter(sorted, i + 1, position_groups, group_counter,
                                    processed)
         ELSE LET position == sorted[i]
                  group_id == <<position.symbol, position.type, group_counter>>
                  c == CollectGroup(sorted, position, i + 1, <<position>>,
                                    processed \cup {position.ticket})
              IN  IF StoresGroup(c.group)
                  THEN SweepGroupsOneCounter(sorted, i + 1,
                                   Append(position_groups,
                                          [id |-> group_id, members |-> c.group]),
                                   group_counter, c.processed)
                  ELSE SweepGroupsOneCounter(sorted, i + 1, position_groups,
                                             group_counter, c.processed)

\* the outer loop; position_groups is the dict in insertion order
RECURSIVE SweepGroups(_, _, _, _, _)
SweepGroups(sorted, i, position_groups, group_counter, processed) ==
    IF i > Len(sorted) THEN position_groups
    ELSE IF sorted[i].ticket \in processed
         THEN SweepGroups(sorted, i + 1, position_groups, group_counter, processed)
         ELSE LET position == sorted[i]
                  group_id == <<position.symbol, position.type, group_counter>>
                  c == CollectGroup(sorted, position, i + 1, <<position>>,
                                    processed \cup {position.ticket})
              IN  IF StoresGroup(c.group)
                  THEN SweepGroups(sorted, i + 1,
                                   Append(position_groups,
                                          [id |-> group_id, members |-> c.group]),
                                   group_counter + 1, c.processed)
                  ELSE SweepGroups(sorted, i + 1, position_groups, group_counter,
                                   c.processed)

identify_position_groups(positions) ==
    IF Len(positions) = 0 THEN <<>>
    ELSE SweepGroups(SortedPositions(positions), 1, <<>>, 0, {})

GroupIds(position_groups) ==
    {position_groups[i].id : i \in 1..Len(position_groups)}

Tickets(group) == {group[i].ticket : i \in 1..Len(group)}

(***************************************************************************)
(* get_position_tp_level: the TP level is parsed from the comment.         *)
(***************************************************************************)
Digit ==
    [c \in {"0", "1", "2", "3", "4", "5", "6", "7", "8", "9"} |->
        CASE c = "0" -> 0 [] c = "1" -> 1 [] c = "2" -> 2 [] c = "3" -> 3
          [] c = "4" -> 4 [] c = "5" -> 5 [] c = "6" -> 6 [] c = "7" -> 7
          [] c = "8" -> 8 [] c = "9" -> 9]

\* comment.split("_TP")[-1]: what follows the last "_TP"
AfterLastTP(comment) ==
    LET at == {i \in 1..(Len(comment) - 2) : SubSeq(comment, i, i + 2) = "_TP"}
        last == CHOOSE i \in at : \A j \in at : j <= i
    IN  SubSeq(comment, last + 3, Len(comment))

\* comment.split("_TP")[0]: what precedes the first "_TP"
BeforeFirstTP(comment) ==
    LET at == {i \in 1..(Len(comment) - 2) : SubSeq(comment, i, i + 2) = "_TP"}
        first == CHOOSE i \in at : \A j \in at : i <= j
    IN  SubSeq(comment, 1, first - 1)

DefaultTpLevel == 1

get_position_tp_level(position) ==
    IF Len(position.comment) > 0 /\ Contains(position.comment, "_TP")
    THEN LET tp_part == AfterLastTP(position.comment)
         IN  IF Len(tp_part) = 0 THEN DefaultTpLevel              \* IndexError
             ELSE IF SubSeq(tp_part, 1, 1) \in DOMAIN Digit
                  THEN Digit[SubSeq(tp_part, 1, 1)]
                  ELSE DefaultTpLevel                             \* ValueError
    ELSE DefaultTpLevel

get_position_index_in_group(position, group) == get_position_tp_level(position)

(***************************************************************************)
(* validate_signal_direction_logic                                         *)
(***************************************************************************)
validate_signal_direction_logic(position, group) ==
    LET is_buy == position.type = ORDER_TYPE_BUY
    IN  /\ ~(position.tp > 0 /\ is_buy /\ position.tp <= position.price_open)
        /\ ~(position.tp > 0 /\ ~is_buy /\ position.tp >= position.price_open)
        /\ ~(is_buy /\ position.sl >= position.price_open)
        /\ ~(~is_buy /\ position.sl <= position.price_open)

(***************************************************************************)
(* get_true_first_price_group.  An average entry a/m is compared with b/n  *)
(* as a*n with b*m.                                                        *)
(***************************************************************************)
RECURSIVE SumOpen(_)
SumOpen(group) ==
    IF Len(group) = 0 THEN 0
    ELSE group[1].price_open + SumOpen(SubSeq(group, 2, Len(group)))

AvgLess(g, h) == SumOpen(g) * Len(h) < SumOpen(h) * Len(g)

get_true_first_price_group(position_groups) ==
    LET valid == SelectSeq(position_groups, LAMBDA g : Len(g.members) > 1)
    IN  IF Len(valid) = 0 THEN [group |-> NoGroup, id |-> NoGroupId]
        ELSE IF Len(valid) = 1
             THEN [group |-> valid[1].members, id |-> valid[1].id]
        ELSE LET is_sell == valid[1].members[1].type = ORDER_TYPE_SELL
                 \* min() and max() return the first extremum in dict order
                 best == CHOOSE i \in 1..Len(valid) :
                     /\ \A j \in 1..Len(valid) :
                            IF is_sell
                            THEN ~AvgLess(valid[j].members, valid[i].members)
                            ELSE ~AvgLess(valid[i].members, valid[j].members)
                     /\ \A j \in 1..(i - 1) :
                            IF is_sell
                            THEN AvgLess(valid[i].members, valid[j].members)
                            ELSE AvgLess(valid[j].members, valid[i].members)
             IN  [group |-> valid[best].members, id |-> valid[best].id]

(***************************************************************************)
(* check_positions, lines 1269-1290: the search for the position's group.  *)
(* The block "if group:" stands inside the for loop, behind the break.     *)
(***************************************************************************)
\* lines 1279-1290, the body of "if group:"; skip is its "continue"
GroupedBlock(position, group, position_groups) ==
    IF ~validate_signal_direction_logic(position, group)
    THEN [position_index |-> NoIndex, first_id |-> NoGroupId, unbound |-> TRUE]
    ELSE [position_index |-> get_position_index_in_group(position, group),
          first_id |-> get_true_first_price_group(position_groups).id,
          unbound |-> FALSE]

\* what the block b assigns, written into found
Assigned(found, b) ==
    [found EXCEPT !.position_index = b.position_index,
                  !.first_id = b.first_id,
                  !.unbound = b.unbound]

\* One pass of "for gid, group_positions in position_groups.items()" from index k.
\* found is what the loop has assigned so far.
RECURSIVE FindGroupLoop(_, _, _, _)
FindGroupLoop(position, position_groups, k, found) ==
    IF k > Len(position_groups) THEN found
    ELSE IF position.ticket \in Tickets(position_groups[k].members)
         THEN [found EXCEPT !.group = position_groups[k].members,
                            !.group_id = position_groups[k].id]      \* break
         ELSE IF Len(found.group) > 0
              THEN FindGroupLoop(position, position_groups, k + 1,
                       Assigned(found, GroupedBlock(position, found.group, position_groups)))
              ELSE FindGroupLoop(position, position_groups, k + 1, found)

\* the rank starts at 1 instead of None
NotFoundRankOne ==
    [group |-> NoGroup, group_id |-> NoGroupId, position_index |-> 1,
     first_id |-> NoGroupId, unbound |-> TRUE, skip |-> FALSE]

NotFound ==
    [group |-> NoGroup, group_id |-> NoGroupId, position_index |-> NoIndex,
     first_id |-> NoGroupId, unbound |-> TRUE, skip |-> FALSE]

\* The same lines with the block entered for the group the loop found: what the
\* cycle does once "if group:" is reached with the position's group.
\* the block run behind the loop: its "continue" leaves the position
Entered(f, b) == [Assigned(f, b) EXCEPT !.skip = b.position_index = NoIndex]

EnterBlock(f, position, position_groups) ==
    IF Len(f.group) = 0 THEN f
    ELSE Entered(f, GroupedBlock(position, f.group, position_groups))

FindGroupEntered(position, position_groups) ==
    EnterBlock(FindGroupLoop(position, position_groups, 1, NotFound),
               position, position_groups)

FindGroup(position, position_groups) ==
    FindGroupLoop(position, position_groups, 1, NotFound)

\* entered tells which of the two a cycle runs
Find(entered, position, position_groups) ==
    IF entered THEN FindGroupEntered(position, position_groups)
               ELSE FindGroup(position, position_groups)

(***************************************************************************)
(* The broker.  A cycle runs against a plan of the broker's answers: every *)
(* order_send succeeds, except those for the plan's target ticket, which   *)
(* are answered from the plan's script, attempt by attempt (the last       *)
(* answer repeats).  A request that is answered DONE is executed.          *)
(***************************************************************************)
TRADE_ACTION_SLTP == "TRADE_ACTION_SLTP"
TRADE_ACTION_DEAL == "TRADE_ACTION_DEAL"
TRADE_ACTION_REMOVE == "TRADE_ACTION_REMOVE"

RECURSIVE RemoveTicket(_, _)
RemoveTicket(seq, ticket) ==
    IF Len(seq) = 0 THEN <<>>
    ELSE IF seq[1].ticket = ticket THEN RemoveTicket(SubSeq(seq, 2, Len(seq)), ticket)
    ELSE <<seq[1]>> \o RemoveTicket(SubSeq(seq, 2, Len(seq)), ticket)

Execute(b, o, req) ==
    IF req.action = TRADE_ACTION_SLTP
    THEN [book |-> [i \in 1..Len(b) |->
                       IF b[i].ticket = req.ticket
                       THEN [b[i] EXCEPT !.sl = req.sl, !.tp = req.tp,
                                         !.comment = IF req.by = "secure_and_progress_tp"
                                                     THEN req.comment ELSE @]
                       ELSE b[i]],
          orders |-> o]
    ELSE IF req.action = TRADE_ACTION_DEAL
    THEN [book |-> RemoveTicket(b, req.ticket), orders |-> o]
    ELSE [book |-> b, orders |-> RemoveTicket(o, req.ticket)]

Answer(s, req) ==
    LET n == Cardinality({i \in 1..Len(s.requests) : s.requests[i].ticket = req.ticket})
    IN  IF req.ticket = s.plan.target
        THEN s.plan.script[IF n + 1 <= Len(s.plan.script) THEN n + 1 ELSE Len(s.plan.script)]
        ELSE TRADE_RETCODE_DONE

\* what a cycle leaves behind, taken from the state s of the cycle
Outcome(s) ==
    [book |-> s.book, orders |-> s.orders, secured_positions |-> s.secured_positions,
     tp1_hit_groups |-> s.tp1_hit_groups, tp1_hit_file |-> s.tp1_hit_file,
     requests |-> s.requests, key_events |-> s.key_events,
     dispatched |-> s.dispatched, visited |-> s.visited, raised |-> s.raised,
     aborted |-> s.aborted]

\* KeyboardInterrupt is raised in the main thread when the call in which the
\* signal arrived returns: the request has been sent and answered, and
\* nothing that follows the call is run.  It is not an Exception, so no
\* handler of check_positions catches it: s.at is the state it leaves.
Interrupted(s) ==
    IF ~s.interrupted /\ s.plan.interrupt = Len(s.requests)
    THEN [s EXCEPT !.interrupted = TRUE, !.at = Outcome(s)]
    ELSE s

\* the call is recorded with its answer
Sent(s, req) ==
    LET result == Answer(s, req)
        sent == [req EXCEPT !.result = result,
                            !.secured_before = req.ticket \in s.secured_positions]
        after == IF result = TRADE_RETCODE_DONE
                 THEN Execute(s.book, s.orders, req)
                 ELSE [book |-> s.book, orders |-> s.orders]
    IN  [s EXCEPT !.requests = Append(@, sent),
                  !.book = after.book, !.orders = after.orders]

\* mt5.order_send(request)
order_send(s, req) == Interrupted(Sent(s, req))

LastResult(s) == s.requests[Len(s.requests)].result

Request(action, ticket, sl, tp, comment, by) ==
    [action |-> action, ticket |-> ticket, sl |-> sl, tp |-> tp, comment |-> comment,
     by |-> by, result |-> None, secured_before |-> FALSE]

log_key_event(s, event_type, ticket) ==
    [s EXCEPT !.key_events = Append(@, [type |-> event_type, ticket |-> ticket])]

\* mt5.symbol_info(symbol).digits of the instruments of the model
SymbolDigits(symbol) == IF Contains(Upper(symbol), "XAU") THEN 2 ELSE 5

\* 10 ** (-digits) in units of 0.00001
RECURSIVE Pow10(_)
Pow10(n) == IF n <= 0 THEN 1 ELSE 10 * Pow10(n - 1)

sl_threshold(symbol) == Pow10(5 - SymbolDigits(symbol))

IsOpen(b, ticket) == \E i \in 1..Len(b) : b[i].ticket = ticket

(***************************************************************************)
(* secure_position                                                         *)
(***************************************************************************)
secure_max_retries == 3

\* one pass of the retry loop: the request is sent, then its result t handled
\* summary_counters['errors'] as secure_position counts it: lines 549, 570
\* and 597 count every attempt that does not end with DONE
CountError(s) == [s EXCEPT !.errors = @ + 1]

ErrorCounted(t) == IF LastResult(t) = TRADE_RETCODE_DONE THEN t ELSE CountError(t)

\* lines 510-518: the ticket is no longer at the broker
NoLongerExists(s, position) ==
    [s |-> CountError([s EXCEPT !.secured_positions = @ \ {position.ticket}]),
     ok |-> FALSE]

RECURSIVE SecureAttempts(_, _, _, _)
RECURSIVE SecureAnswered(_, _, _, _)
\* the loop with one attempt more
SecureAttemptsOneMore(s, position, log_as_tp1_hit, attempt) ==
    IF attempt >= secure_max_retries + 1 THEN [s |-> s, ok |-> FALSE]
    ELSE SecureAnswered(
             ErrorCounted(
                 order_send(s, Request(TRADE_ACTION_SLTP, position.ticket,
                                       position.price_open, position.tp,
                                       "PipSecure Entry", "secure_position"))),
             position, log_as_tp1_hit, attempt)

SecureAnswered(t, position, log_as_tp1_hit, attempt) ==
    IF LastResult(t) \in {ResultNone, ResultException}
    THEN SecureAttempts(t, position, log_as_tp1_hit, attempt + 1)
    ELSE IF LastResult(t) = TRADE_RETCODE_DONE
    THEN [s |-> IF log_as_tp1_hit
                THEN log_key_event([t EXCEPT !.secured_positions = @ \cup {position.ticket}],
                                   "TP1_SECURED", position.ticket)
                ELSE [t EXCEPT !.secured_positions = @ \cup {position.ticket}],
          ok |-> TRUE]
    ELSE IF LastResult(t) = TRADE_RETCODE_INVALID_STOPS
    THEN [s |-> t, ok |-> FALSE]                                  \* break
    ELSE IF LastResult(t) \in {TRADE_RETCODE_REQUOTE, TRADE_RETCODE_CONNECTION}
    THEN SecureAttempts(t, position, log_as_tp1_hit, attempt + 1) \* continue
    ELSE IF attempt < secure_max_retries - 1
    THEN SecureAttempts(t, position, log_as_tp1_hit, attempt + 1)
    ELSE SecureAttempts(IF log_as_tp1_hit
                        THEN log_key_event(t, "TP1_SECURE_FAILED", position.ticket)
                        ELSE t,
                        position, log_as_tp1_hit, attempt + 1)

SecureAttempts(s, position, log_as_tp1_hit, attempt) ==
    IF attempt >= secure_max_retries THEN [s |-> s, ok |-> FALSE]
    ELSE SecureAnswered(
             ErrorCounted(
                 order_send(s, Request(TRADE_ACTION_SLTP, position.ticket,
                                       position.price_open, position.tp,
                                       "PipSecure Entry", "secure_position"))),
             position, log_as_tp1_hit, attempt)

AlreadyAtEntry(position) ==
    Abs(position.sl - position.price_open) < sl_threshold(position.symbol)

\* secure_position without the look at the present stop-loss
secure_position_always(s, position, log_as_tp1_hit) ==
    IF ~IsOpen(s.book, position.ticket)
    THEN NoLongerExists(s, position)
    ELSE SecureAttempts(s, position, log_as_tp1_hit, 0)

secure_position(s, position, log_as_tp1_hit) ==
    IF AlreadyAtEntry(position)
    THEN [s |-> [s EXCEPT !.secured_positions = @ \cup {position.ticket}], ok |-> TRUE]
    ELSE IF ~IsOpen(s.book, position.ticket)
    THEN NoLongerExists(s, position)
    ELSE SecureAttempts(s, position, log_as_tp1_hit, 0)

(***************************************************************************)
(* close_position                                                          *)
(***************************************************************************)
filling_modes == <<"ORDER_FILLING_IOC", "ORDER_FILLING_FOK", "ORDER_FILLING_RETURN", None>>

RECURSIVE CloseAttempts(_, _, _)
RECURSIVE CloseAnswered(_, _, _)
CloseAnswered(t, position, mode) ==
    IF LastResult(t) = TRADE_RETCODE_DONE THEN [s |-> t, ok |-> TRUE]
    ELSE IF LastResult(t) \in {ResultNone, ResultException, RetcodeFilling}
    THEN CloseAttempts(t, position, mode + 1)
    ELSE [s |-> t, ok |-> FALSE]

CloseAttempts(s, position, mode) ==
    IF mode > Len(filling_modes) THEN [s |-> s, ok |-> FALSE]
    ELSE CloseAnswered(
             order_send(s, Request(TRADE_ACTION_DEAL, position.ticket, 0, 0,
                                   "PipSecureEA: TP1 Close", "close_position")),
             position, mode)

close_position(s, position) ==
    IF ~s.plan.tick THEN [s |-> s, ok |-> FALSE]
    ELSE CloseAttempts(s, position, 1)

(***************************************************************************)
(* ProgressiveTPManager and secure_and_progress_tp.  signal_data_cache is  *)
(* a set of entries [group_id, tp_levels], one per group id.               *)
(***************************************************************************)
CacheHas(cache, group_id) == \E e \in cache : e.group_id = group_id

\* signal_data_cache.get(group_id, {}).get('tp_levels', [])
CachedLevels(cache, group_id) ==
    IF CacheHas(cache, group_id)
    THEN (CHOOSE e \in cache : e.group_id = group_id).tp_levels
    ELSE <<>>

should_handle_tp_progression(cache, position, group_id) ==
    Contains(position.comment, "_TP") /\ CacheHas(cache, group_id)

get_next_tp_price(tp_levels, next_level) ==
    IF next_level <= Len(tp_levels) /\ next_level >= 1 THEN tp_levels[next_level] ELSE NoPrice

LevelStr(n) == CASE n = 0 -> "0" [] n = 1 -> "1" [] n = 2 -> "2" [] n = 3 -> "3"
                 [] n = 4 -> "4" [] OTHER -> "5"

progress_max_retries == 3

RECURSIVE ProgressAttempts(_, _, _, _)
RECURSIVE ProgressAnswered(_, _, _, _)
\* the ticket is tracked when the request is sent, not when it is answered DONE
ProgressAnsweredTracked(t, position, request, attempt) ==
    IF LastResult(t) = TRADE_RETCODE_DONE
    THEN [s |-> [t EXCEPT !.secured_positions = @ \cup {position.ticket}], ok |-> TRUE]
    ELSE ProgressAttempts([t EXCEPT !.secured_positions = @ \cup {position.ticket}],
                          position, request, attempt + 1)

ProgressAnswered(t, position, request, attempt) ==
    IF LastResult(t) = TRADE_RETCODE_DONE
    THEN [s |-> [t EXCEPT !.secured_positions = @ \cup {position.ticket}], ok |-> TRUE]
    ELSE ProgressAttempts(t, position, request, attempt + 1)

ProgressAttempts(s, position, request, attempt) ==
    IF attempt >= progress_max_retries THEN [s |-> s, ok |-> FALSE]
    ELSE ProgressAnswered(order_send(s, request), position, request, attempt)

\* new_comment; without "_TP" in the old comment it is "G<group_id>_TP<level>",
\* of which the group id is left out here
ProgressComment(position, next_tp_level) ==
    IF Contains(position.comment, "_TP")
    THEN BeforeFirstTP(position.comment) \o "_TP" \o LevelStr(next_tp_level)
    ELSE "G_TP" \o LevelStr(next_tp_level)

secure_and_progress_tp(s, position, next_tp_price, next_tp_level) ==
    IF next_tp_price = NoPrice THEN close_position(s, position)
    ELSE ProgressAttempts(s, position,
             Request(TRADE_ACTION_SLTP, position.ticket, position.price_open, next_tp_price,
                     ProgressComment(position, next_tp_level),
                     "secure_and_progress_tp"),
             0)

LastTpLevel == 4

\* handle_tp_hit without the limit of the last level
handle_tp_hit_any_level(s, position, group_id) ==
    LET next_level == get_position_tp_level(position) + 1
        next_tp_price == get_next_tp_price(CachedLevels(s.signal_data_cache, group_id),
                                           next_level)
    IN  IF next_tp_price # NoPrice /\ next_tp_price # 0
        THEN secure_and_progress_tp(s, position, next_tp_price, next_level)
        ELSE close_position(s, position)

handle_tp_hit(s, position, group_id) ==
    LET current_level == get_position_tp_level(position)
        tp_levels == CachedLevels(s.signal_data_cache, group_id)
    IN  IF current_level < LastTpLevel
        THEN LET next_level == current_level + 1
                 next_tp_price == get_next_tp_price(tp_levels, next_level)
             IN  IF next_tp_price # NoPrice /\ next_tp_price # 0
                 THEN secure_and_progress_tp(s, position, next_tp_price, next_level)
                 ELSE close_position(s, position)
        ELSE close_position(s, position)

(***************************************************************************)
(* Rule 1: find_corresponding_pending_orders and delete_pending_orders     *)
(***************************************************************************)
find_corresponding_pending_orders(s, position_group) ==
    IF Len(position_group) = 0 THEN <<>>
    ELSE LET symbol == position_group[1].symbol
             position_type == position_group[1].type
             all_orders == IF s.plan.orders_get
                           THEN SelectSeq(s.orders, LAMBDA o : o.symbol = symbol)
                           ELSE <<>>            \* orders_get returned None
         IN  SelectSeq(all_orders, LAMBDA order :
                 /\ order.state = ORDER_STATE_PLACED
                 /\ \/ /\ position_type = ORDER_TYPE_BUY
                       /\ order.type \in {ORDER_TYPE_BUY_LIMIT, ORDER_TYPE_BUY_STOP}
                    \/ /\ position_type = ORDER_TYPE_SELL
                       /\ order.type \in {ORDER_TYPE_SELL_LIMIT, ORDER_TYPE_SELL_STOP})

delete_max_retries == 2

RECURSIVE DeleteAttempts(_, _, _)
RECURSIVE DeleteAnswered(_, _, _)
\* the failure of the last attempt is not logged
DeleteAnsweredNoFailure(t, order, attempt) ==
    IF LastResult(t) = TRADE_RETCODE_DONE
    THEN [log_key_event(t, "PENDING_DELETED", order.ticket)
             EXCEPT !.deleted_count = @ + 1]
    ELSE IF attempt < delete_max_retries - 1
    THEN DeleteAttempts(t, order, attempt + 1)
    ELSE t

DeleteAnswered(t, order, attempt) ==
    IF LastResult(t) = TRADE_RETCODE_DONE
    THEN [log_key_event(t, "PENDING_DELETED", order.ticket)
             EXCEPT !.deleted_count = @ + 1]                      \* break
    ELSE IF attempt < delete_max_retries - 1
    THEN DeleteAttempts(t, order, attempt + 1)
    ELSE log_key_event(t, "PENDING_DELETE_FAILED", order.ticket)

DeleteAttempts(s, order, attempt) ==
    IF attempt >= delete_max_retries THEN s
    ELSE DeleteAnswered(
             order_send(s, Request(TRADE_ACTION_REMOVE, order.ticket, 0, 0,
                                   "PipSecure Delete", "delete_pending_orders")),
             order, attempt)

\* for order in orders_to_delete
RECURSIVE DeleteLoop(_, _)
DeleteLoop(s, orders_to_delete) ==
    IF Len(orders_to_delete) = 0 THEN s
    ELSE DeleteLoop(DeleteAttempts(s, orders_to_delete[1], 0),
                    SubSeq(orders_to_delete, 2, Len(orders_to_delete)))

\* s.deleted_count is the count the call returns
delete_pending_orders(s, orders_to_delete) ==
    DeleteLoop([s EXCEPT !.deleted_count = 0], orders_to_delete)

(***************************************************************************)
(* Rule 2: secure_second_price_positions                                   *)
(***************************************************************************)
second_max_retries == 3

RECURSIVE SecondAttempts(_, _, _, _)
RECURSIVE SecondAnswered(_, _, _, _)
SecondAnswered(t, position, first_price_entry_value, attempt) ==
    IF LastResult(t) = ResultNone
    THEN SecondAttempts(t, position, first_price_entry_value, attempt + 1)
    ELSE IF LastResult(t) = TRADE_RETCODE_DONE
    THEN [log_key_event(t, "SECOND_PRICE_SECURED", position.ticket)
             EXCEPT !.secured_positions = @ \cup {position.ticket}]
    ELSE IF LastResult(t) = TRADE_RETCODE_INVALID_STOPS
    THEN log_key_event(t, "SECOND_PRICE_SECURE_FAILED", position.ticket)
    ELSE SecondAttempts(IF attempt = second_max_retries - 1
                        THEN log_key_event(t, "SECOND_PRICE_SECURE_FAILED", position.ticket)
                        ELSE t,
                        position, first_price_entry_value, attempt + 1)

SecondAttempts(s, position, first_price_entry_value, attempt) ==
    IF attempt >= second_max_retries THEN s
    ELSE SecondAnswered(
             order_send(s, Request(TRADE_ACTION_SLTP, position.ticket,
                                   first_price_entry_value, position.tp,
                                   "PipSecure 1st", "secure_second_price_positions")),
             position, first_price_entry_value, attempt)

\* Rule 2 without the look at secured_positions
RECURSIVE SecondLoopNoSkip(_, _, _)
SecondLoopNoSkip(s, second_price_candidates, first_price_entry_value) ==
    IF Len(second_price_candidates) = 0 THEN s
    ELSE SecondLoopNoSkip(SecondAttempts(s, second_price_candidates[1],
                                         first_price_entry_value, 0),
                          SubSeq(second_price_candidates, 2, Len(second_price_candidates)),
                          first_price_entry_value)

RECURSIVE SecondLoop(_, _, _)
SecondLoop(s, second_price_candidates, first_price_entry_value) ==
    IF Len(second_price_candidates) = 0 THEN s
    ELSE LET position == second_price_candidates[1]
             rest == SubSeq(second_price_candidates, 2, Len(second_price_candidates))
         IN  IF position.ticket \in s.secured_positions
             THEN SecondLoop(s, rest, first_price_entry_value)        \* all three branches skip
             ELSE SecondLoop(SecondAttempts(s, position, first_price_entry_value, 0),
                             rest, first_price_entry_value)

secure_second_price_positions(s, first_price_group, first_price_entry_value) ==
    IF Len(first_price_group) = 0 \/ first_price_entry_value = 0 THEN s
    ELSE LET symbol == first_price_group[1].symbol
             position_type == first_price_group[1].type
             first_price_tickets == Tickets(first_price_group)
             second_price_candidates ==
                 SelectSeq(s.book, LAMBDA pos : /\ pos.symbol = symbol
                                                /\ pos.type = position_type
                                                /\ pos.ticket \notin first_price_tickets)
         IN  SecondLoop(s, second_price_candidates, first_price_entry_value)

(***************************************************************************)
(* check_positions, lines 1324-1384: the trigger decision.  Distances are  *)
(* in price units; n pips are n * pip_multiplier units.                    *)
(***************************************************************************)
MIN_POSITION_AGE_SECONDS == 300
MIN_PIPS_FOR_SECURE == 5
TestMinPips == 1
TestPipsToTp == 10
TestProgressPercent == 25
TestPipsGained == 1
PipsToTpLimit == 3
ProgressPercentLimit == 80

Gained(position) ==
    IF position.type = ORDER_TYPE_BUY
    THEN position.price_current - position.price_open
    ELSE position.price_open - position.price_current

ToTp(position) ==
    IF position.type = ORDER_TYPE_BUY
    THEN position.tp - position.price_current
    ELSE position.price_current - position.tp

TotalTp(position) ==
    IF position.type = ORDER_TYPE_BUY
    THEN position.tp - position.price_open
    ELSE position.price_open - position.tp

\* (gained / total) * 100 >= percent, where degenerate is the value of the
\* percentage when abs(total_tp_pips) > 0.1 fails
ProgressAtLeast(gained, total, pip, percent, degenerate) ==
    IF 10 * Abs(total) > pip
    THEN IF total > 0 THEN 100 * gained >= percent * total
                      ELSE 100 * gained <= percent * total
    ELSE degenerate >= percent

\* lines 1368-1381, the branch that holds the production policy
FairPolicy(position, pip, groups_count) ==
    IF groups_count > 1
    THEN ToTp(position) <= PipsToTpLimit * pip
    ELSE \/ ToTp(position) <= PipsToTpLimit * pip
         \/ ProgressAtLeast(Gained(position), TotalTp(position), pip,
                            ProgressPercentLimit, 0)

\* lines 1353-1381
ShouldAct(mode, position, pip, groups_count) ==
    IF mode
    THEN IF ToTp(position) <= TestPipsToTp * pip THEN TRUE
         ELSE IF ProgressAtLeast(Gained(position), TotalTp(position), pip,
                                 TestProgressPercent, 0) THEN TRUE
         ELSE IF Gained(position) >= TestPipsGained * pip THEN TRUE
         ELSE FairPolicy(position, pip, groups_count)
    ELSE FALSE

\* no minimum profit
min_pips_none(mode) == 0

min_pips_required(mode) == IF mode THEN TestMinPips ELSE MIN_PIPS_FOR_SECURE

(***************************************************************************)
(* check_positions, lines 1392-1432: the dispatch sequence                 *)
(***************************************************************************)
_save_tp1_hit_group(s, group_id) ==
    IF group_id \notin s.tp1_hit_groups
    THEN [s EXCEPT !.tp1_hit_groups = @ \cup {group_id},
                   !.tp1_hit_file = Append(@, group_id)]
    ELSE s

RECURSIVE SecureSiblings(_, _, _, _)
SecureSiblings(s, position, group, k) ==
    IF k > Len(group) THEN s
    ELSE IF group[k].ticket # position.ticket /\ group[k].ticket \notin s.secured_positions
         THEN SecureSiblings(secure_position(s, group[k], FALSE).s, position, group, k + 1)
         ELSE SecureSiblings(s, position, group, k + 1)

Action3(s, position, group) ==
    LET corresponding_pending == find_corresponding_pending_orders(s, group)
    IN  IF Len(corresponding_pending) > 0
        THEN delete_pending_orders(s, corresponding_pending)
        ELSE secure_second_price_positions(s, group, position.price_open)

\* the dispatch that has run, noted for the properties: s is the state it
\* started from, done the state it left
DispatchNoted(s, last_request, in_flight, tp1_ok, position, group_id) ==
    [group_id |-> group_id, ticket |-> position.ticket, tp1_ok |-> tp1_ok,
     hit_before |-> group_id \in s.tp1_hit_groups,
     first_request |-> Len(s.requests) + 1,
     last_request |-> last_request,
     in_flight |-> in_flight]

\* a dispatch that the interrupt has met is noted in the state the interrupt
\* leaves, as in flight
Started(s, done, tp1_ok, position, group_id) ==
    IF done.interrupted /\ ~s.interrupted
    THEN [done EXCEPT !.at.dispatched =
             Append(@, DispatchNoted(s, Len(done.at.requests), TRUE,
                                     tp1_ok, position, group_id))]
    ELSE [done EXCEPT !.dispatched =
             Append(@, DispatchNoted(s, Len(done.requests), FALSE,
                                     tp1_ok, position, group_id))]

\* Action 3 first, then Action 2 on the siblings
Action3Before2(s, tp1, position, group, group_id, progressive) ==
    Started(s,
            IF progressive \/ tp1.ok
            THEN SecureSiblings(Action3(tp1.s, position, group), position, group, 1)
            ELSE Action3(tp1.s, position, group),
            tp1.ok, position, group_id)

\* lines 1403-1432: Action 2 on the siblings, then Action 3; tp1 is the result
\* of the action on the TP1 member
Action2(s, tp1, position, group, group_id, progressive) ==
    Started(s,
            Action3(IF progressive \/ tp1.ok
                    THEN SecureSiblings(tp1.s, position, group, 1)
                    ELSE tp1.s,
                    position, group),
            tp1.ok, position, group_id)

\* lines 1398-1412: Action 1 on the TP1 member; marked is the state with the
\* group noted as triggered
Action1(s, marked, position, group, group_id, progressive) ==
    Action2(s,
            IF progressive THEN handle_tp_hit(marked, position, group_id)
                           ELSE close_position(marked, position),
            position, group, group_id, progressive)

Dispatch(s, position, group, group_id) ==
    Action1(s,
            _save_tp1_hit_group([s EXCEPT !.triggered = @ \cup {group_id}], group_id),
            position, group, group_id,
            should_handle_tp_progression(s.signal_data_cache, position, group_id))

(***************************************************************************)
(* check_positions, lines 1237-1446: the body of the loop over positions.  *)
(* Find is the search for the position's group.                            *)
(***************************************************************************)
TpLogic(s, position, f, groups_count, time, mode) ==
    LET pip == get_pip_multiplier(position.symbol)
    IN  IF position.tp = 0 THEN s
        ELSE IF /\ ShouldAct(mode, position, pip, groups_count)
                /\ Gained(position) >= min_pips_required(mode) * pip
        THEN Dispatch(s, position, f.group, f.group_id)
        ELSE IF /\ f.position_index > 1
                /\ (f.group_id \in s.tp1_hit_groups \/ f.group_id \in s.triggered)
        THEN IF position.ticket \notin s.secured_positions
             THEN secure_position(s, position, FALSE).s
             ELSE s
        ELSE s

\* lines 1292-1443, f being what the search has assigned
Grouped(s, position, f, groups_count, time, mode) ==
    IF f.skip THEN s
    ELSE IF /\ f.position_index = 1
            /\ f.group_id = f.first_id
            /\ f.group_id \notin s.triggered
    THEN TpLogic(s, position, f, groups_count, time, mode)
    ELSE s                                                \* standalone

\* lines 1262-1267 raise a TypeError for a position whose price_current
\* cannot be read as a number; the handler of lines 1444-1446 ends the
\* processing of that position
Unreadable(s, position, field) ==
    position.ticket = s.plan.malformed /\ s.plan.unreadable = field

Visited(s, position) == [s EXCEPT !.visited = Append(@, position.ticket)]

ProcessPosition(entered, s, position, position_groups, time, mode) ==
    IF position.ticket \in s.secured_positions THEN s
    ELSE IF time - position.time < MIN_POSITION_AGE_SECONDS THEN s
    ELSE IF get_pip_multiplier(position.symbol) = 0 THEN s
    ELSE IF Unreadable(s, position, "price_current")
    THEN [s EXCEPT !.raised = @ \cup {position.ticket}]
    ELSE Grouped(s, position, Find(entered, position, position_groups),
                 Len(position_groups), time, mode)

\* the loop of line 1237 left by the first exception
RECURSIVE ProcessPositionsUntilRaised(_, _, _, _, _, _, _)
ProcessPositionsUntilRaised(entered, s, positions, k, position_groups, time, mode) ==
    IF k > Len(positions) \/ s.raised # {} THEN s
    ELSE ProcessPositionsUntilRaised(entered,
             ProcessPosition(entered, Visited(s, positions[k]), positions[k],
                             position_groups, time, mode),
             positions, k + 1, position_groups, time, mode)

RECURSIVE ProcessPositions(_, _, _, _, _, _, _)
ProcessPositions(entered, s, positions, k, position_groups, time, mode) ==
    IF k > Len(positions) THEN s
    ELSE ProcessPositions(entered,
             ProcessPosition(entered, Visited(s, positions[k]), positions[k],
                             position_groups, time, mode),
             positions, k + 1, position_groups, time, mode)

(***************************************************************************)
(* The instruments, prices, positions and orders of the model.             *)
(***************************************************************************)
MaxPositions == 3
MaxOrders == 3
MaxTicks == 1

Symbols == {"EURUSD"}

\* price_current: half a pip of profit, and 2 pips short of 1.10300
PriceLevels == {110005, 110280}

Position(ticket, type, time, price_open, sl, tp, comment) ==
    [ticket |-> ticket, symbol |-> "EURUSD", type |-> type, time |-> time,
     price_open |-> price_open, sl |-> sl, tp |-> tp, comment |-> comment]

PositionTemplates ==
    << Position(1, ORDER_TYPE_BUY, 0, 110000, 109500, 110300, "G1_TP1"),
       Position(2, ORDER_TYPE_BUY, 0, 110000, 110000, 110600, "G1_TP2"),
       Position(3, ORDER_TYPE_BUY, 2, 110000, 109500, 110300, ""),
       Position(4, ORDER_TYPE_BUY, 60, 109000, 109000, 110300, "") >>

Order(ticket, type, state) ==
    [ticket |-> ticket, symbol |-> "EURUSD", type |-> type, state |-> state,
     price_open |-> 109000]

OrderTemplates ==
    << Order(11, ORDER_TYPE_BUY_LIMIT, ORDER_STATE_PLACED),
       Order(12, ORDER_TYPE_SELL_LIMIT, ORDER_STATE_PLACED),
       Order(13, ORDER_TYPE_BUY_STOP, ORDER_STATE_PLACED),
       Order(14, ORDER_TYPE_BUY_LIMIT, ORDER_STATE_STARTED) >>

\* the subsequences of seq with at most n elements
RECURSIVE SubSeqs(_, _)
SubSeqs(seq, n) ==
    IF Len(seq) = 0 \/ n = 0 THEN {<<>>}
    ELSE LET rest == SubSeq(seq, 2, Len(seq))
         IN  SubSeqs(rest, n) \cup {<<seq[1]>> \o r : r \in SubSeqs(rest, n - 1)}

\* the first cycle sees the positions just past the minimum age, but for
\* the youngest; one tick ages them all
NowStart == MIN_POSITION_AGE_SECONDS + 20
TickSeconds == MIN_POSITION_AGE_SECONDS

LevelLists == {<<110300, 110600>>, <<110300>>}

(***************************************************************************)
(* The answers of the broker during one cycle.                             *)
(***************************************************************************)
\* positions_get is the position query of the cycle that fails: 1 for the one
\* of check_positions, 2 for the one of identify_position_groups, 0 for none
\* malformed is the ticket of a position of which the field unreadable cannot
\* be read (0 for none), interrupt the number of the order_send call of the
\* cycle during which the interrupt signal arrives (0 for none), and closed
\* the ticket of a position that is closed at the broker between the position
\* query of the cycle and the one of the grouping (0 for none)
PlanOk ==
    [target |-> 0, script |-> <<TRADE_RETCODE_DONE>>, tick |-> TRUE,
     orders_get |-> TRUE, positions_get |-> 0,
     malformed |-> 0, unreadable |-> "", interrupt |-> 0, closed |-> 0]

Scripts ==
    { <<RetcodeRejected>>, <<TRADE_RETCODE_INVALID_STOPS>>,
      <<TRADE_RETCODE_REQUOTE, TRADE_RETCODE_DONE>> }

(***************************************************************************)
(* check_positions: one monitoring cycle                                   *)
(***************************************************************************)
\* mt5.positions_get(): the open positions with their current price
Snapshot(b, m) ==
    [i \in 1..Len(b) |->
        [ticket |-> b[i].ticket, symbol |-> b[i].symbol, type |-> b[i].type,
         time |-> b[i].time, price_open |-> b[i].price_open, sl |-> b[i].sl,
         tp |-> b[i].tp, comment |-> b[i].comment,
         price_current |-> m[b[i].symbol]]]

Start(plan) ==
    [book |-> RemoveTicket(book, plan.closed), orders |-> orders, secured_positions |-> secured_positions,
     tp1_hit_groups |-> tp1_hit_groups, tp1_hit_file |-> tp1_hit_file,
     signal_data_cache |-> signal_data_cache, requests |-> <<>>, key_events |-> <<>>,
     triggered |-> {}, dispatched |-> <<>>, deleted_count |-> 0, plan |-> plan,
     visited |-> <<>>, raised |-> {}, aborted |-> FALSE,
     interrupted |-> FALSE, at |-> <<>>, errors |-> 0]

Seen(ran, positions, position_groups, plan) ==
    [ran |-> ran, positions |-> positions, position_groups |-> position_groups,
     positions_get |-> plan.positions_get, orders_get |-> plan.orders_get,
     closed |-> plan.closed,
     visited |-> <<>>, raised |-> {}, aborted |-> FALSE, interrupted |-> FALSE,
     orders |-> orders, secured_positions |-> secured_positions,
     tp1_hit_groups |-> tp1_hit_groups, now |-> now, test_mode |-> test_mode]

\* lines 1230-1446: the groups are identified, the hit set is pruned, and the
\* positions are processed in the broker's order
CycleOfGroups(entered, plan, positions, position_groups) ==
    [s |-> ProcessPositions(entered,
                            [Start(plan) EXCEPT
                                !.tp1_hit_groups = @ \cap GroupIds(position_groups)],
                            positions, 1, position_groups, now, test_mode),
     seen |-> Seen(TRUE, positions, position_groups, plan)]

\* identify_position_groups, lines 611-617: the method asks the broker for
\* the positions itself, and returns no group when the query fails
GroupsQueried(plan, positions) ==
    IF plan.positions_get = 2 THEN <<>>
    ELSE identify_position_groups(RemoveTicket(positions, plan.closed))

\* lines 1219-1230
CycleOfPositions(entered, plan, positions) ==
    IF Len(positions) = 0
    THEN [s |-> [Start(plan) EXCEPT !.secured_positions = {}, !.tp1_hit_groups = {}],
          seen |-> Seen(TRUE, <<>>, <<>>, plan)]
    ELSE CycleOfGroups(entered, plan, positions, GroupsQueried(plan, positions))

\* lines 1202-1207: the cycle ends at once when its position query fails.
\* lines 1209-1215: the symbol of every position is read before the loop; an
\* exception there is caught by the handler of lines 1452-1454, which ends
\* the cycle.
Cycle(entered, plan) ==
    IF plan.positions_get = 1
    THEN [s |-> Start(plan), seen |-> Seen(TRUE, <<>>, <<>>, plan)]
    ELSE IF plan.unreadable = "symbol" /\ IsOpen(book, plan.malformed)
    THEN [s |-> [Start(plan) EXCEPT !.aborted = TRUE],
          seen |-> Seen(TRUE, Snapshot(book, market), <<>>, plan)]
    ELSE CycleOfPositions(entered, plan, Snapshot(book, market))

\* the hit file only grows; the model stops a run at MaxFileLines lines
MaxFileLines == 1

\* the cycle has ended, by its return or by the interrupt: out is what it
\* leaves.  run, lines 1563-1570: the interrupt ends the loop, and the process
\* disconnects.
Left(seen, out, interrupted) ==
    /\ Len(out.tp1_hit_file) <= MaxFileLines
    /\ book' = out.book
    /\ orders' = out.orders
    /\ secured_positions' = out.secured_positions
    /\ tp1_hit_groups' = out.tp1_hit_groups
    /\ tp1_hit_file' = out.tp1_hit_file
    /\ requests' = out.requests
    /\ key_events' = out.key_events
    /\ dispatched' = out.dispatched
    /\ cycle' = [seen EXCEPT !.visited = out.visited, !.raised = out.raised,
                             !.aborted = out.aborted, !.interrupted = interrupted]
    /\ running' = ~interrupted
    /\ UNCHANGED <<market, now, test_mode, signal_data_cache, fn>>

\* the cycle c becomes the next state
Commit(c) ==
    Left(c.seen, IF c.s.interrupted THEN c.s.at ELSE Outcome(c.s), c.s.interrupted)

\* The plans of one fault that can make a difference to the cycle.  Until its
\* fault is met a cycle runs as it does when every call succeeds, so the
\* faults are taken among the calls of that run, which left the state ok: a
\* ticket that is sent a request, the tick once a position is closed, the
\* orders once a dispatch has started, the position query of the cycle, the
\* one of the grouping when there are positions to group, a field of a
\* position on the book, and an interrupt during one of the requests.
Faults(ok) ==
    {PlanOk}
    \cup {[PlanOk EXCEPT !.target = ok.requests[i].ticket, !.script = script] :
             i \in 1..Len(ok.requests), script \in Scripts}
    \cup (IF \E i \in 1..Len(ok.requests) : ok.requests[i].action = TRADE_ACTION_DEAL
          THEN {[PlanOk EXCEPT !.tick = FALSE]} ELSE {})
    \cup (IF Len(ok.dispatched) > 0 THEN {[PlanOk EXCEPT !.orders_get = FALSE]} ELSE {})
    \cup {[PlanOk EXCEPT !.positions_get = 1]}
    \cup {[PlanOk EXCEPT !.malformed = book[i].ticket,
                          !.unreadable = "price_current"] : i \in 1..Len(book)}
    \cup {[PlanOk EXCEPT !.malformed = book[i].ticket, !.unreadable = "symbol"] :
             i \in 1..Len(book) \cap {1}}
    \cup {[PlanOk EXCEPT !.interrupt = n] : n \in 1..Len(ok.requests)}
    \cup (IF Len(book) > 0 THEN {[PlanOk EXCEPT !.positions_get = 2]} ELSE {})

Plans(entered) == Faults(Cycle(entered, PlanOk).s)

\* check_positions as written
check_positions ==
    /\ running
    /\ \E plan \in Plans(FALSE) : Commit(Cycle(FALSE, plan))

\* check_positions with the group block entered for the position's group
check_positions_entered ==
    /\ running
    /\ \E plan \in Plans(TRUE) : Commit(Cycle(TRUE, plan))

\* a cycle during which a position is closed at the broker after the position
\* query of line 1202 and before the one of line 611
check_positions_closing ==
    /\ running
    /\ \E i \in 1..Len(book) :
          Commit(Cycle(TRUE, [PlanOk EXCEPT !.closed = book[i].ticket]))

(***************************************************************************)
(* What happens between cycles.  requests, key_events, dispatched and      *)
(* cycle describe the step just taken, so a step that is not a cycle       *)
(* leaves them empty.                                                      *)
(***************************************************************************)
NoCycle ==
    [ran |-> FALSE, positions |-> <<>>, position_groups |-> <<>>, orders |-> <<>>,
     positions_get |-> 0, orders_get |-> TRUE, closed |-> 0,
     visited |-> <<>>, raised |-> {}, aborted |-> FALSE, interrupted |-> FALSE,
     secured_positions |-> {}, tp1_hit_groups |-> {}, now |-> 0, test_mode |-> FALSE]

Quiet ==
    /\ requests' = <<>>
    /\ key_events' = <<>>
    /\ dispatched' = <<>>
    /\ cycle' = NoCycle

\* the market moves
PriceMove ==
    \E symbol \in Symbols, price \in PriceLevels :
        /\ running
        /\ market[symbol] # price
        /\ market' = [market EXCEPT ![symbol] = price]
        /\ Quiet
        /\ UNCHANGED <<book, orders, now, test_mode, signal_data_cache,
                       secured_positions, tp1_hit_groups, tp1_hit_file,
                       running, fn>>

\* time passes
Tick ==
    /\ running
    /\ now < NowStart + MaxTicks * TickSeconds
    /\ now' = now + TickSeconds
    /\ Quiet
    /\ UNCHANGED <<book, orders, market, test_mode, signal_data_cache,
                   secured_positions, tp1_hit_groups, tp1_hit_file,
                       running, fn>>

\* the broker closes a position (its stop-loss or take-profit was hit, or by hand)
PositionClosed ==
    \E ticket \in Tickets(book) :
        /\ running
        /\ book' = RemoveTicket(book, ticket)
        /\ Quiet
        /\ UNCHANGED <<orders, market, now, test_mode, signal_data_cache,
                       secured_positions, tp1_hit_groups, tp1_hit_file,
                       running, fn>>

\* ProgressiveTPManager.cache_signal_data(group_id, tp_levels)
cache_signal_data ==
    \E group_id \in GroupIds(identify_position_groups(book)), tp_levels \in LevelLists :
        /\ running
        /\ signal_data_cache' =
               {e \in signal_data_cache : e.group_id # group_id}
               \cup {[group_id |-> group_id, tp_levels |-> tp_levels]}
        /\ signal_data_cache' # signal_data_cache
        /\ Quiet
        /\ UNCHANGED <<book, orders, market, now, test_mode,
                       secured_positions, tp1_hit_groups, tp1_hit_file,
                       running, fn>>

RECURSIVE SeqToSet(_)
SeqToSet(seq) == IF Len(seq) = 0 THEN {} ELSE {seq[1]} \cup SeqToSet(SubSeq(seq, 2, Len(seq)))

\* the process is started again: __init__ and _load_tp1_hit_groups
Restart ==
    /\ ~running \/ secured_positions # {} \/ signal_data_cache # {}
                 \/ tp1_hit_groups # SeqToSet(tp1_hit_file)
    /\ running' = TRUE
    /\ secured_positions' = {}
    /\ tp1_hit_groups' = SeqToSet(tp1_hit_file)
    /\ signal_data_cache' = {}
    /\ Quiet
    /\ UNCHANGED <<book, orders, market, now, test_mode, tp1_hit_file, fn>>

Init ==
    /\ book \in {b \in SubSeqs(PositionTemplates, MaxPositions) :
                   Len(b) = MaxPositions \/ Len(b) = Len(PositionTemplates)}
    /\ orders \in {SubSeq(OrderTemplates, 1, n) : n \in {0, MaxOrders}}
    /\ market = [symbol \in Symbols |-> 110005]
    /\ now = NowStart
    /\ test_mode \in BOOLEAN
    /\ signal_data_cache = {}
    /\ secured_positions = {}
    /\ tp1_hit_file = <<>>
    /\ tp1_hit_groups = {}
    /\ requests = <<>>
    /\ key_events = <<>>
    /\ dispatched = <<>>
    /\ cycle = NoCycle
    /\ running = TRUE
    /\ fn = None

Environment ==
    \/ PriceMove
    \/ Tick
    \/ PositionClosed
    \/ cache_signal_data
    \/ Restart

\* the program as written
Next ==
    \/ check_positions
    \/ Environment

Spec == Init /\ [][Next]_vars

\* In the program as written the block of lines 1279-1290 is never run: it
\* stands inside the lookup loop behind the break, where group is still None,
\* so the rank stays None and every position leaves at lines 1300-1302.  No
\* request is ever sent under Spec.  SpecEntered is the same program with the
\* block run for the group the loop has found; the dispatch is studied there.
NextEntered ==
    \/ check_positions_entered
    \/ Environment

SpecEntered == Init /\ [][NextEntered]_vars

(***************************************************************************)
(* What the properties speak about: the cycle that has just run.           *)
(***************************************************************************)
RequestsFor(ticket) == {i \in 1..Len(requests) : requests[i].ticket = ticket}

EventsFor(ticket) == {i \in 1..Len(key_events) : key_events[i].ticket = ticket}

EventsOf(type, ticket) == {i \in EventsFor(ticket) : key_events[i].type = type}

SeenPositions == {cycle.positions[i] : i \in 1..Len(cycle.positions)}

\* the groups of two members or more that the cycle worked with
SeenGroups ==
    {cycle.position_groups[i].members : i \in 1..Len(cycle.position_groups)}

MultiMember(group) == Len(group) >= 2

Members(group) == {group[i] : i \in 1..Len(group)}

Standalone(position) ==
    \A group \in SeenGroups : MultiMember(group) => position.ticket \notin Tickets(group)

Aged(position) == cycle.now - position.time >= MIN_POSITION_AGE_SECONDS

\* the numeric condition of the trigger as the specification states it: a
\* take-profit is set, the price is within 3 pips of it (or, with one group
\* only, at 80% of the way), and the profit is at least 5 pips
NumericTrigger(position) ==
    LET pip == get_pip_multiplier(position.symbol)
    IN  /\ position.tp # 0
        /\ Gained(position) >= MIN_PIPS_FOR_SECURE * pip
        /\ \/ ToTp(position) <= PipsToTpLimit * pip
           \/ /\ Cardinality(SeenGroups) <= 1
              /\ ProgressAtLeast(Gained(position), TotalTp(position), pip,
                                 ProgressPercentLimit, 0)

\* a TP1 member that is due: rank 1 in a group of two or more, old enough, not
\* tracked, its stop-loss on the losing side, and the numeric condition met
DueTp1(position, group) ==
    /\ MultiMember(group)
    /\ position \in Members(group)
    /\ get_position_tp_level(position) = 1
    /\ Aged(position)
    /\ position.ticket \notin cycle.secured_positions
    /\ validate_signal_direction_logic(position, group)
    /\ NumericTrigger(position)

AllDone == \A i \in 1..Len(requests) : requests[i].result = TRADE_RETCODE_DONE

ModifiedTo(position, sl) ==
    \E i \in RequestsFor(position.ticket) :
        /\ requests[i].action = TRADE_ACTION_SLTP
        /\ requests[i].sl = sl
        /\ requests[i].tp = position.tp

MatchingPending(group) ==
    {o \in {cycle.orders[i] : i \in 1..Len(cycle.orders)} :
        /\ o.symbol = group[1].symbol
        /\ o.state = ORDER_STATE_PLACED
        /\ IF group[1].type = ORDER_TYPE_BUY
           THEN o.type \in {ORDER_TYPE_BUY_LIMIT, ORDER_TYPE_BUY_STOP}
           ELSE o.type \in {ORDER_TYPE_SELL_LIMIT, ORDER_TYPE_SELL_STOP}}

SecondPrice(group) ==
    {q \in SeenPositions : /\ q.symbol = group[1].symbol
                           /\ q.type = group[1].type
                           /\ q.ticket \notin Tickets(group)}

C2_Tp1AndSiblingsSecured ==
    (cycle.ran /\ AllDone) =>
        \A group \in SeenGroups : \A position \in Members(group) :
            DueTp1(position, group) =>
                /\ \A member \in Members(group) :
                       /\ member.ticket \in secured_positions
                       /\ AlreadyAtEntry(member) \/ ModifiedTo(member, member.price_open)
                /\ Cardinality(UNION {EventsOf("TP1_SECURED", member.ticket) :
                                         member \in Members(group)}) = 1

(***************************************************************************)
(* C3.  When a TP1 member is due and placed pending orders of the same      *)
(* symbol and matching direction exist, a cancel request is sent for every  *)
(* one of them, each cancelled order has exactly one PENDING_DELETED event, *)
(* and no second-price position is sent a request.                         *)
(***************************************************************************)
C3_PendingOrdersCancelled ==
    cycle.ran =>
        \A group \in SeenGroups : \A position \in Members(group) :
            (DueTp1(position, group) /\ MatchingPending(group) # {}) =>
                /\ \A o \in MatchingPending(group) :
                       /\ \E i \in RequestsFor(o.ticket) :
                              requests[i].action = TRADE_ACTION_REMOVE
                       /\ (\E i \in RequestsFor(o.ticket) :
                              requests[i].result = TRADE_RETCODE_DONE)
                          => Cardinality(EventsOf("PENDING_DELETED", o.ticket)) = 1
                /\ \A q \in SecondPrice(group) : RequestsFor(q.ticket) = {}

(***************************************************************************)
(* C4.  When a TP1 member is due and no matching pending order exists,      *)
(* every other open position of the same symbol and direction outside the   *)
(* group gets (the broker accepting every request) a stop-loss modify to    *)
(* the entry price of the TP1 member with its TP unchanged, is in           *)
(* secured_positions afterwards, and has exactly one SECOND_PRICE_SECURED   *)
(* event.                                                                  *)
(***************************************************************************)
C4_SecondPriceSecured ==
    (cycle.ran /\ AllDone) =>
        \A group \in SeenGroups : \A position \in Members(group) :
            (DueTp1(position, group) /\ MatchingPending(group) = {}) =>
                \A q \in SecondPrice(group) :
                    /\ ModifiedTo(q, position.price_open)
                    /\ q.ticket \in secured_positions
                    /\ Cardinality(EventsOf("SECOND_PRICE_SECURED", q.ticket)) = 1

(***************************************************************************)
(* C5.  A standalone position (in no group of two or more) never causes a   *)
(* request, an audit event or an addition to secured_positions, even when   *)
(* it meets the numeric condition: no dispatch is started for it, and every *)
(* request, event and addition that concerns its ticket is Rule 2 of the    *)
(* dispatch of a group (secure_second_price_positions), so a cycle without  *)
(* a dispatch leaves it alone.                                             *)
(***************************************************************************)
C5_StandaloneIgnored ==
    cycle.ran =>
        \A position \in SeenPositions :
            Standalone(position) =>
                /\ \A k \in 1..Len(dispatched) : dispatched[k].ticket # position.ticket
                /\ \A i \in RequestsFor(position.ticket) :
                       /\ requests[i].by = "secure_second_price_positions"
                       /\ Len(dispatched) > 0
                /\ \A i \in EventsFor(position.ticket) :
                       key_events[i].type \in {"SECOND_PRICE_SECURED",
                                               "SECOND_PRICE_SECURE_FAILED"}
                /\ (position.ticket \in secured_positions \ cycle.secured_positions)
                   => \E i \in RequestsFor(position.ticket) :
                          /\ requests[i].by = "secure_second_price_positions"
                          /\ requests[i].result = TRADE_RETCODE_DONE

\* a cycle in test mode meets an old enough standalone position at the numeric
\* condition and sends nothing at all
C5_Witness ==
    /\ cycle.ran
    /\ cycle.test_mode
    /\ Len(requests) = 0
    /\ \E position \in SeenPositions :
           /\ Standalone(position)
           /\ Aged(position)
           /\ position.ticket \notin cycle.secured_positions
           /\ NumericTrigger(position)

us30_get_pip_multiplier(symbol) ==
    IF Contains(symbol, "US30") THEN 1000000 ELSE 100

progressive_get_pip_multiplier(symbol) ==
    IF Contains(symbol, "GBP") THEN 100 ELSE 100

\* sorted(valid_tp_positions, key=tp, reverse=is_sell) is stable in both
\* directions, so the member at index j comes before the member at index i
\* when its key is strictly first, or equal with j < i
us30_SortsBefore(group, j, i, is_sell) ==
    \/ (~is_sell /\ group[j].tp < group[i].tp)
    \/ (is_sell /\ group[j].tp > group[i].tp)
    \/ (group[j].tp = group[i].tp /\ j < i)

us30_get_position_index_in_group(position, group) ==
    IF Len(group) = 0 \/ position.tp = 0 THEN NoIndex
    ELSE LET is_sell == position.type = ORDER_TYPE_SELL
             valid == {j \in 1..Len(group) : group[j].tp # 0}
             at == {i \in valid : group[i].ticket = position.ticket}
         IN  IF at = {} THEN NoIndex
             ELSE LET i == CHOOSE x \in at : \A y \in at : x <= y
                  IN  1 + Cardinality({j \in valid : us30_SortsBefore(group, j, i, is_sell)})

progressive_get_position_index_in_group(position, group) ==
    get_position_tp_level(position)

sim_pips_gained(position, current_price) ==
    IF position.type = ORDER_TYPE_SELL
    THEN position.price_open - current_price
    ELSE current_price - position.price_open

sim_total_tp_pips(position) ==
    IF position.type = ORDER_TYPE_SELL
    THEN position.price_open - position.tp
    ELSE position.tp - position.price_open

\* tp_progress_percent >= 80, with the value 100 or 0 of the degenerate case
sim_progress_reached(position, current_price, pip_multiplier) ==
    LET pips_gained == sim_pips_gained(position, current_price)
    IN  ProgressAtLeast(pips_gained, sim_total_tp_pips(position), pip_multiplier,
                        ProgressPercentLimit,
                        IF pips_gained >= 0 THEN 100 ELSE 0)

us30_pips_to_tp(position, current_price) ==
    IF position.type = ORDER_TYPE_SELL
    THEN current_price - position.tp
    ELSE position.tp - current_price

us30_check_tp1_hit_conditions(position, group, current_price, position_groups_len) ==
    LET pip_multiplier == us30_get_pip_multiplier(position.symbol)
        near == us30_pips_to_tp(position, current_price) <= PipsToTpLimit * pip_multiplier
    IN  IF us30_get_position_index_in_group(position, group) # 1 THEN FALSE
        ELSE IF position.tp > 0
        THEN IF position_groups_len > 1
             THEN near
             ELSE near \/ sim_progress_reached(position, current_price, pip_multiplier)
        ELSE FALSE                        \* pips_to_tp = inf, tp_progress_percent = 0

progressive_pips_to_tp(position, current_price) ==
    IF position.type = ORDER_TYPE_SELL
    THEN Abs(current_price - position.tp)
    ELSE Abs(position.tp - current_price)

\* pip_tolerance = 3.01, in hundredths of a pip
pip_tolerance == 301

progressive_check_tp1_hit_conditions(position, group, current_price, position_groups_len) ==
    LET pip_multiplier == progressive_get_pip_multiplier(position.symbol)
        near == 100 * progressive_pips_to_tp(position, current_price)
                    <= pip_tolerance * pip_multiplier
    IN  IF progressive_get_position_index_in_group(position, group) # 1 THEN FALSE
        ELSE IF position.tp > 0
        THEN IF position_groups_len > 1
             THEN near
             ELSE near \/ sim_progress_reached(position, current_price, pip_multiplier)
        ELSE FALSE

(***************************************************************************)
(* Direct calls of the trigger decision.  A call is made on a position of  *)
(* a two-member group: the entry, the take-profit (none, on the entry, on  *)
(* the profit side at three distances, on the losing side), the current    *)
(* price (given by its signed distance to the take-profit, or to the entry *)
(* when there is none), the comment, the sibling's take-profit and the     *)
(* number of groups are the inputs.  Prices are in units of 0.000001.      *)
(***************************************************************************)
TriggerSymbols == {"GBPUSD"}
EntryPrices == {1260000}
TpDistances == {-1000, 0, 5, 1000, 3000}
ShortOfTp == {-400, -301, 0, 200, 300, 301, 302, 600, 601, 1200}
TriggerComments == {"S1_TP1", "S1_TP2", ""}
SiblingTps == {"none", "nearer", "farther"}
GroupCounts == {1, 2}

\* a price at distance d from price p in the direction of profit
Towards(type, p, d) == IF type = ORDER_TYPE_SELL THEN p - d ELSE p + d

TriggerPosition(ticket, symbol, type, price_open, tp, current_price, comment) ==
    [ticket |-> ticket, symbol |-> symbol, type |-> type, time |-> 0,
     price_open |-> price_open, sl |-> 0, tp |-> tp, comment |-> comment,
     price_current |-> current_price]

TriggerInput(symbol, type, price_open, has_tp, tp_distance, short, comment, sibling, groups, mode) ==
    LET tp == IF ~has_tp THEN 0 ELSE Towards(type, price_open, tp_distance)
        current_price == IF tp = 0 THEN Towards(type, price_open, -short)
                                   ELSE Towards(type, tp, -short)
        sibling_tp == CASE sibling = "none" -> 0
                        [] sibling = "nearer" -> Towards(type, price_open, tp_distance - 50)
                        [] OTHER -> Towards(type, price_open, tp_distance + 50)
        position == TriggerPosition(1, symbol, type, price_open, tp, current_price, comment)
        other == TriggerPosition(2, symbol, type, price_open,
                                 IF tp = 0 THEN 0 ELSE sibling_tp, current_price, "S1_TP3")
    IN  [position |-> position, group |-> <<position, other>>,
         current_price |-> current_price, position_groups_len |-> groups,
         test_mode |-> mode, called |-> "", should_secure |-> FALSE]

TriggerInputs ==
    {TriggerInput(symbol, type, price_open, has_tp, tp_distance, short, comment, sibling, groups, mode) :
        symbol \in TriggerSymbols, type \in {ORDER_TYPE_BUY, ORDER_TYPE_SELL},
        price_open \in EntryPrices, has_tp \in BOOLEAN, tp_distance \in TpDistances,
        short \in ShortOfTp, comment \in TriggerComments, sibling \in SiblingTps,
        groups \in GroupCounts, mode \in BOOLEAN}

Returned(name, result) ==
    /\ fn.called = ""
    /\ fn' = [fn EXCEPT !.called = name, !.should_secure = result]
    /\ UNCHANGED <<book, orders, market, now, test_mode, signal_data_cache,
                   secured_positions, tp1_hit_groups, tp1_hit_file,
                   requests, key_events, dispatched, cycle, running>>

call_us30_check_tp1_hit_conditions ==
    Returned("us30", us30_check_tp1_hit_conditions(
                         fn.position, fn.group, fn.current_price, fn.position_groups_len))

call_progressive_check_tp1_hit_conditions ==
    Returned("progressive", progressive_check_tp1_hit_conditions(
                         fn.position, fn.group, fn.current_price, fn.position_groups_len))

\* check_positions, lines 1324-1381, for a position that reached them;
\* get_pip_multiplier counts in units of 0.00001
call_should_act ==
    Returned("should_act",
             /\ fn.position.tp # 0
             /\ ShouldAct(fn.test_mode, fn.position,
                          10 * get_pip_multiplier(fn.position.symbol),
                          fn.position_groups_len))

InitTrigger ==
    /\ fn \in TriggerInputs
    /\ book = <<>>
    /\ orders = <<>>
    /\ market = [symbol \in Symbols |-> 110005]
    /\ now = NowStart
    /\ test_mode = fn.test_mode
    /\ signal_data_cache = {}
    /\ secured_positions = {}
    /\ tp1_hit_file = <<>>
    /\ tp1_hit_groups = {}
    /\ requests = <<>>
    /\ key_events = <<>>
    /\ dispatched = <<>>
    /\ cycle = NoCycle
    /\ running = TRUE

NextTrigger ==
    \/ call_us30_check_tp1_hit_conditions
    \/ call_progressive_check_tp1_hit_conditions
    \/ call_should_act

SpecTrigger == InitTrigger /\ [][NextTrigger]_vars

(***************************************************************************)
(* The trigger decision as the specification states it (section 4.4).      *)
(***************************************************************************)
Simulators == {"us30", "progressive"}

\* the rank the called function gives the position
RankOf(name) ==
    IF name = "us30" THEN us30_get_position_index_in_group(fn.position, fn.group)
    ELSE get_position_tp_level(fn.position)

PipOf(name) ==
    IF name = "us30" THEN us30_get_pip_multiplier(fn.position.symbol)
    ELSE IF name = "progressive" THEN progressive_get_pip_multiplier(fn.position.symbol)
    ELSE 10 * get_pip_multiplier(fn.position.symbol)

\* pips_to_tp, positive while the price is short of the target
StatedToTp ==
    IF fn.position.type = ORDER_TYPE_BUY THEN fn.position.tp - fn.current_price
                                         ELSE fn.current_price - fn.position.tp

StatedGained ==
    IF fn.position.type = ORDER_TYPE_BUY
    THEN fn.current_price - fn.position.price_open
    ELSE fn.position.price_open - fn.current_price

StatedTotal ==
    IF fn.position.type = ORDER_TYPE_BUY THEN fn.position.tp - fn.position.price_open
                                         ELSE fn.position.price_open - fn.position.tp

\* pips_to_tp <= 3
StatedNear(pip) == StatedToTp <= 3 * pip

\* progress_percent >= 80, the percentage being 100 * gained / total when
\* |total_tp_pips| > 0.1, else 100 if pips_gained >= 0 and 0 otherwise
StatedProgress(pip) ==
    IF 10 * StatedTotal > pip THEN 100 * StatedGained >= 80 * StatedTotal
    ELSE IF 10 * StatedTotal < -pip THEN 100 * StatedGained <= 80 * StatedTotal
    ELSE StatedGained >= 0

\* C9: in single-group mode check_tp1_hit_conditions returns true for a
\* rank-1 position with a nonzero take-profit exactly when pips_to_tp <= 3
\* or progress_percent >= 80, and returns false for a position whose rank is
\* not 1.
C9_SingleGroupDecision ==
    (fn.called \in Simulators /\ fn.position_groups_len = 1) =>
        /\ (RankOf(fn.called) = 1 /\ fn.position.tp # 0) =>
               (fn.should_secure <=>
                    (StatedNear(PipOf(fn.called)) \/ StatedProgress(PipOf(fn.called))))
        /\ RankOf(fn.called) # 1 => ~fn.should_secure

\* C10: in multi-group mode the decision for a rank-1 position is true
\* exactly when pips_to_tp <= 3, whatever the progress percentage, in the two
\* simulators and in check_positions.
C10_MultiGroupDecision ==
    (/\ fn.called # ""
     /\ fn.position_groups_len > 1
     /\ RankOf(fn.called) = 1
     /\ fn.position.tp # 0) =>
        (fn.should_secure <=> StatedNear(PipOf(fn.called)))

(***************************************************************************)
(* MockPipSecureEA.identify_position_groups (src/us30_simulator.py): the   *)
(* grouping of PipSecureEA with the simulator's multiplier and tolerance,  *)
(* and with every group stored, a single position included.  The prices of *)
(* the snapshots below are in units of 0.00001, a tenth of the unit in     *)
(* which us30_get_pip_multiplier counts.                                   *)
(***************************************************************************)
us30_JoinsGroup(position, other_position) ==
    /\ Abs(other_position.time - position.time) <= time_proximity_threshold
    /\ other_position.symbol = position.symbol
    /\ other_position.type = position.type
    /\ 10 * Abs(other_position.price_open - position.price_open)
           <= (IF Contains(position.symbol, "US30") THEN 50
                                                    ELSE price_proximity_threshold)
              * us30_get_pip_multiplier(position.symbol)

RECURSIVE us30_CollectGroup(_, _, _, _, _)
us30_CollectGroup(sorted, position, j, current_group, processed) ==
    IF j > Len(sorted) THEN [group |-> current_group, processed |-> processed]
    ELSE IF sorted[j].ticket \notin processed /\ us30_JoinsGroup(position, sorted[j])
         THEN us30_CollectGroup(sorted, position, j + 1, Append(current_group, sorted[j]),
                                processed \cup {sorted[j].ticket})
         ELSE us30_CollectGroup(sorted, position, j + 1, current_group, processed)

\* the outer loop: "if len(current_group) >= 1" stores every group
RECURSIVE us30_SweepGroups(_, _, _, _, _)
us30_SweepGroups(sorted, i, position_groups, group_counter, processed) ==
    IF i > Len(sorted) THEN position_groups
    ELSE IF sorted[i].ticket \in processed
         THEN us30_SweepGroups(sorted, i + 1, position_groups, group_counter, processed)
         ELSE us30_SweepGroups(sorted, i + 1,
                  Append(position_groups,
                         [id |-> <<sorted[i].symbol, sorted[i].type, group_counter>>,
                          members |-> us30_CollectGroup(sorted, sorted[i], i + 1,
                                          <<sorted[i]>>,
                                          processed \cup {sorted[i].ticket}).group]),
                  group_counter + 1,
                  us30_CollectGroup(sorted, sorted[i], i + 1, <<sorted[i]>>,
                                    processed \cup {sorted[i].ticket}).processed)

us30_identify_position_groups(positions) ==
    IF Len(positions) = 0 THEN <<>>
    ELSE us30_SweepGroups(SortedPositions(positions), 1, <<>>, 0, {})

(***************************************************************************)
(* Direct calls of the grouping.  A snapshot is a list of up to            *)
(* MaxSnapshot of the positions below, in any order (the broker's order    *)
(* decides between positions with equal sort keys).  The grouping is       *)
(* called on it, up to MaxCalls times, and each member of each group is    *)
(* given its rank by get_position_index_in_group.                          *)
(***************************************************************************)
MaxSnapshot == 4
MaxCalls == 1

GroupPosition(ticket, symbol, type, time, price_open, tp, comment) ==
    [ticket |-> ticket, symbol |-> symbol, type |-> type, time |-> time,
     price_open |-> price_open, sl |-> 0, tp |-> tp, comment |-> comment]

\* EURUSD: 1.10000, 10 and 20 pips above; XAUUSD: 2000.00, 100 and 200 pips above
GroupTemplates ==
    << GroupPosition(1, "EURUSD", ORDER_TYPE_BUY, 0, 110100, 110400, "G1_TP1"),
       GroupPosition(2, "EURUSD", ORDER_TYPE_BUY, 0, 110000, 110300, "G1_TP2"),
       GroupPosition(3, "EURUSD", ORDER_TYPE_BUY, 5, 110200, 110400, ""),
       GroupPosition(4, "EURUSD", ORDER_TYPE_BUY, 6, 110200, 110600, "G1_TP3"),
       GroupPosition(5, "EURUSD", ORDER_TYPE_SELL, 0, 110100, 109800, "G2_TP1"),
       GroupPosition(6, "EURUSD", ORDER_TYPE_SELL, 0, 110100, 109500, "G2_TP2"),
       GroupPosition(7, "XAUUSD", ORDER_TYPE_BUY, 0, 200000000, 200500000, "G3_TP1"),
       GroupPosition(8, "XAUUSD", ORDER_TYPE_BUY, 0, 200100000, 200900000, "G3_TP2"),
       GroupPosition(9, "XAUUSD", ORDER_TYPE_BUY, 5, 200200000, 0, "G3_TP3") >>

GroupSnapshots ==
    {[i \in DOMAIN f |-> GroupTemplates[f[i]]] :
        f \in {g \in UNION {[1..n -> 1..Len(GroupTemplates)] : n \in 1..MaxSnapshot} :
                  \A i, j \in DOMAIN g : i # j => g[i] # g[j]}}

\* get_position_index_in_group of the class whose grouping is called
IndexInGroup(name, position, group) ==
    IF name = "us30" THEN us30_get_position_index_in_group(position, group)
                     ELSE get_position_index_in_group(position, group)

Grouper(name, position_groups) ==
    /\ Len(fn.calls) < MaxCalls
    /\ \A c \in 1..Len(fn.calls) : fn.calls[c].name = name
    /\ fn' = [fn EXCEPT !.calls = Append(@,
                 [name |-> name, position_groups |-> position_groups,
                  index |-> [k \in 1..Len(position_groups) |->
                                [m \in 1..Len(position_groups[k].members) |->
                                    IndexInGroup(name, position_groups[k].members[m],
                                                 position_groups[k].members)]]])]
    /\ UNCHANGED <<book, orders, market, now, test_mode, signal_data_cache,
                   secured_positions, tp1_hit_groups, tp1_hit_file,
                   requests, key_events, dispatched, cycle, running>>

call_identify_position_groups ==
    Grouper("main", identify_position_groups(fn.positions))

call_us30_identify_position_groups ==
    Grouper("us30", us30_identify_position_groups(fn.positions))

InitGroups ==
    /\ fn \in {[positions |-> positions, calls |-> <<>>] : positions \in GroupSnapshots}
    /\ book = <<>>
    /\ orders = <<>>
    /\ market = [symbol \in Symbols |-> 110005]
    /\ now = NowStart
    /\ test_mode = FALSE
    /\ signal_data_cache = {}
    /\ secured_positions = {}
    /\ tp1_hit_file = <<>>
    /\ tp1_hit_groups = {}
    /\ requests = <<>>
    /\ key_events = <<>>
    /\ dispatched = <<>>
    /\ cycle = NoCycle
    /\ running = TRUE

NextGroups ==
    \/ call_identify_position_groups
    \/ call_us30_identify_position_groups

SpecGroups == InitGroups /\ [][NextGroups]_vars

(***************************************************************************)
(* The grouping as the specification states it (sections 4.2 to 4.4).      *)
(***************************************************************************)
\* every call of the grouping made so far
GroupCalls == {fn.calls[c] : c \in 1..Len(fn.calls)}

GroupsOf(call) == {call.position_groups[k] : k \in 1..Len(call.position_groups)}

\* more than one multi-member group exists for the position's instrument
StatedFairMode(position, call) ==
    Cardinality({g \in GroupsOf(call) :
                    MultiMember(g.members) /\ g.members[1].symbol = position.symbol}) > 1

\* The mode the code selects for a position, read off its decision at 90% of
\* the way to a take-profit 100 pips from the entry: there the price is 10
\* pips short of the target, so the decision is true in single-group mode and
\* false in multi-group mode.  unit is 1 for lines 1368-1381 of
\* check_positions and 10 for the simulator.
ProbeOf(position, unit, pip) ==
    TriggerPosition(position.ticket, position.symbol, position.type,
                    unit * position.price_open,
                    Towards(position.type, unit * position.price_open, 100 * pip),
                    Towards(position.type, unit * position.price_open, 90 * pip),
                    position.comment)

ProbeDecision(name, probe, pip, call) ==
    IF name = "us30"
    THEN us30_check_tp1_hit_conditions(probe, <<probe>>, probe.price_current,
                                       Len(call.position_groups))
    ELSE FairPolicy(probe, pip, Len(call.position_groups))

FairModeSelected(position, call) ==
    IF call.name = "us30"
    THEN ~ProbeDecision(call.name,
                        ProbeOf(position, 10, us30_get_pip_multiplier(position.symbol)),
                        us30_get_pip_multiplier(position.symbol), call)
    ELSE ~ProbeDecision(call.name,
                        ProbeOf(position, 1, get_pip_multiplier(position.symbol)),
                        get_pip_multiplier(position.symbol), call)

\* C11: fair multi-group mode is selected for a grouped position exactly when
\* more than one multi-member group exists for the position's own instrument;
\* groups on other instruments and single-position groups do not count.
C11_FairModeByInstrument ==
    \A call \in GroupCalls : \A g \in GroupsOf(call) : \A position \in Members(g.members) :
        FairModeSelected(position, call) <=> StatedFairMode(position, call)

\* the pip tolerance of the entry prices: 10, or 100 for the designated gold,
\* oil and index symbols
StatedTolerance(symbol) ==
    IF \/ Contains(Upper(symbol), "XAU") \/ Contains(Upper(symbol), "GOLD")
       \/ symbol \in {"OILCash", "US30Cash", "US100Cash", "JP225Cash", "GER40Cash"}
    THEN 100 ELSE 10

\* two positions match on symbol, direction, time and price proximity
StatedMatch(p, q) ==
    /\ p.symbol = q.symbol
    /\ p.type = q.type
    /\ Abs(p.time - q.time) <= 5
    /\ Abs(p.price_open - q.price_open)
           <= StatedTolerance(p.symbol) * get_pip_multiplier(p.symbol)

SnapshotPositions == {fn.positions[i] : i \in 1..Len(fn.positions)}

MainCalls == {call \in GroupCalls : call.name = "main"}

\* C12: identify_position_groups returns only groups of at least two members,
\* and a position that matches no other position of the snapshot on symbol,
\* direction, time and price proximity is in no returned group.
C12_OnlyMultiMemberGroups ==
    \A call \in MainCalls :
        /\ \A g \in GroupsOf(call) : Len(g.members) >= 2
        /\ \A p \in SnapshotPositions :
               (\A q \in SnapshotPositions \ {p} : ~StatedMatch(p, q)) =>
                   \A g \in GroupsOf(call) : p \notin Members(g.members)

\* the grouper has returned a group for a snapshot that also holds a position
\* matching no other
C12_Witness ==
    \E call \in MainCalls :
        /\ GroupsOf(call) # {}
        /\ \E p \in SnapshotPositions : \A q \in SnapshotPositions \ {p} : ~StatedMatch(p, q)

\* C13: any two members of a returned group have the same symbol and the same
\* direction, open times at most 5 seconds apart and entry prices at most the
\* price tolerance apart.
C13_MembersPairwiseClose ==
    \A call \in MainCalls : \A g \in GroupsOf(call) :
        \A p, q \in Members(g.members) : StatedMatch(p, q)

\* C15: within a group the ranks of the members with a nonzero take-profit are
\* pairwise distinct and ordered by take-profit: in a buy group a strictly
\* lower take-profit has a strictly lower rank, in a sell group a strictly
\* higher one.
C15_RanksOrderedByTakeProfit ==
    \A call \in GroupCalls : \A k \in 1..Len(call.position_groups) :
        LET group == call.position_groups[k].members
            rank == call.index[k]
            ranked == {m \in 1..Len(group) : group[m].tp # 0}
        IN  \A m, n \in ranked :
                /\ m # n => rank[m] # rank[n]
                /\ (group[1].type = ORDER_TYPE_BUY /\ group[m].tp < group[n].tp)
                       => rank[m] < rank[n]
                /\ (group[1].type = ORDER_TYPE_SELL /\ group[m].tp > group[n].tp)
                       => rank[m] < rank[n]

(***************************************************************************)
(* Direct calls of the functions that send requests, against a broker that *)
(* answers the requests for one ticket from a script of MaxScript results  *)
(* (any of the ways order_send can end) and every other request with DONE. *)
(* The account holds the four positions and the first three orders above.  *)
(***************************************************************************)
MaxScript == 3

Results ==
    {TRADE_RETCODE_DONE, TRADE_RETCODE_INVALID_STOPS, TRADE_RETCODE_REQUOTE,
     TRADE_RETCODE_CONNECTION, RetcodeRejected, ResultNone, ResultException}

CallTargets == {3, 4, 11, 13}

CallPlans ==
    {[PlanOk EXCEPT !.target = target, !.script = script] :
        target \in CallTargets, script \in [1..MaxScript -> Results]}

\* the call has returned: s is the state it left
Called(name, s, ok, positions, orders_to_delete, log_as_tp1_hit) ==
    /\ fn.called = ""
    /\ fn' = [fn EXCEPT !.called = name, !.ok = ok, !.count = s.deleted_count,
                        !.positions = positions, !.orders = orders_to_delete,
                        !.log_as_tp1_hit = log_as_tp1_hit, !.errors = s.errors,
                        !.tracked = positions # <<>> /\ \A i \in 1..Len(positions) :
                                        positions[i].ticket \in secured_positions]
    /\ book' = s.book
    /\ orders' = s.orders
    /\ secured_positions' = s.secured_positions
    /\ requests' = s.requests
    /\ key_events' = s.key_events
    /\ UNCHANGED <<market, now, test_mode, signal_data_cache, tp1_hit_groups,
                   tp1_hit_file, dispatched, cycle, running>>

call_delete_pending_orders ==
    /\ fn.called = ""
    /\ secured_positions = {}
    /\ \E orders_to_delete \in {orders, SubSeq(orders, 3, 3), <<>>} :
        Called("delete_pending_orders",
               delete_pending_orders(Start(fn.plan), orders_to_delete),
               TRUE, <<>>, orders_to_delete, FALSE)

SecurePositionCalled(r, position, log_as_tp1_hit) ==
    Called("secure_position", r.s, r.ok, <<position>>, <<>>, log_as_tp1_hit)

call_secure_position ==
    /\ fn.called = ""
    /\ secured_positions = {}
    /\ \E k \in {2, 3}, log_as_tp1_hit \in BOOLEAN :
        SecurePositionCalled(
            secure_position(Start(fn.plan), Snapshot(book, market)[k], log_as_tp1_hit),
            Snapshot(book, market)[k], log_as_tp1_hit)

\* the position of the call has been closed since it was read; its ticket
\* may have stayed in secured_positions, and the other calls start with an
\* empty tracker
call_secure_position_closed ==
    /\ fn.called = ""
    /\ \E k \in {2, 3}, log_as_tp1_hit \in BOOLEAN :
        SecurePositionCalled(
            secure_position(Start(fn.plan),
                            [Snapshot(book, market)[k] EXCEPT !.ticket = 9],
                            log_as_tp1_hit),
            [Snapshot(book, market)[k] EXCEPT !.ticket = 9], log_as_tp1_hit)

call_secure_second_price_positions ==
    /\ fn.called = ""
    /\ secured_positions = {}
    /\ \E first_price_entry_value \in {0, book[1].price_open} :
        Called("secure_second_price_positions",
               secure_second_price_positions(Start(fn.plan),
                   SubSeq(Snapshot(book, market), 1, 2), first_price_entry_value),
               first_price_entry_value # 0, SubSeq(Snapshot(book, market), 1, 2),
               <<>>, FALSE)

ProgressCalled(r, position) ==
    Called("secure_and_progress_tp", r.s, r.ok, <<position>>, <<>>, FALSE)

call_secure_and_progress_tp ==
    /\ fn.called = ""
    /\ secured_positions = {}
    /\ \E k \in {1, 3}, next_tp_price \in {NoPrice, 110600} :
        ProgressCalled(
            secure_and_progress_tp(Start(fn.plan), Snapshot(book, market)[k],
                                   next_tp_price, 2),
            Snapshot(book, market)[k])

\* handle_tp_hit is called for the position of ticket 3 as the caller read
\* it, its comment being any of HitComments, with the group's entry of the
\* cache holding any of HitLevels; the broker's script is the one for that
\* ticket
HitGroupId == <<"EURUSD", ORDER_TYPE_BUY, 0>>

HitComments ==
    {"", "G1_TP0", "G1_TP1", "G1_TP2", "G1_TP3", "G1_TP4", "G1_TP5", "G1_TP1_TP3"}

HitLevels ==
    {<<>>, <<110300, 110600>>, <<110300, 0, 110900>>,
     <<110300, 110600, 110900, 111200, 111500>>}

HitCalled(r, position, cache) ==
    /\ fn' = [fn EXCEPT !.called = "handle_tp_hit", !.ok = r.ok,
                        !.positions = <<position>>]
    /\ signal_data_cache' = cache
    /\ book' = r.s.book
    /\ orders' = r.s.orders
    /\ secured_positions' = r.s.secured_positions
    /\ requests' = r.s.requests
    /\ key_events' = r.s.key_events
    /\ UNCHANGED <<market, now, test_mode, tp1_hit_groups, tp1_hit_file,
                   dispatched, cycle, running>>

HandleTpHit(position, cache) ==
    HitCalled(handle_tp_hit([Start(fn.plan) EXCEPT !.signal_data_cache = cache],
                            position, HitGroupId),
              position, cache)

call_handle_tp_hit ==
    /\ fn.called = ""
    /\ secured_positions = {}
    /\ fn.plan.target = 3
    /\ \E comment \in HitComments, tp_levels \in HitLevels :
        HandleTpHit([Snapshot(book, market)[3] EXCEPT !.comment = comment],
                    {[group_id |-> HitGroupId, tp_levels |-> tp_levels]})

InitCalls ==
    /\ fn \in {[plan |-> plan, called |-> "", ok |-> FALSE, count |-> 0,
                positions |-> <<>>, orders |-> <<>>, log_as_tp1_hit |-> FALSE,
                errors |-> 0, tracked |-> FALSE] :
                  plan \in CallPlans}
    /\ book = PositionTemplates
    /\ orders = SubSeq(OrderTemplates, 1, 3)
    /\ market = [symbol \in Symbols |-> 110280]
    /\ now = NowStart
    /\ test_mode = FALSE
    /\ signal_data_cache = {}
    /\ secured_positions \in {{}, {9}}
    /\ tp1_hit_file = <<>>
    /\ tp1_hit_groups = {}
    /\ requests = <<>>
    /\ key_events = <<>>
    /\ dispatched = <<>>
    /\ cycle = NoCycle
    /\ running = TRUE

NextCalls ==
    \/ call_delete_pending_orders
    \/ call_secure_position
    \/ call_secure_position_closed
    \/ call_secure_second_price_positions
    \/ call_secure_and_progress_tp
    \/ call_handle_tp_hit

SpecCalls == InitCalls /\ [][NextCalls]_vars

(***************************************************************************)
(* The audit events and the tracker after a call.                          *)
(***************************************************************************)
RequestedTickets == {requests[i].ticket : i \in 1..Len(requests)}

AnsweredDone(ticket) ==
    \E i \in RequestsFor(ticket) : requests[i].result = TRADE_RETCODE_DONE

\* the events of the ticket whose type is one of types
Terminal(types, ticket) == {i \in EventsFor(ticket) : key_events[i].type \in types}

DeleteEvents == {"PENDING_DELETED", "PENDING_DELETE_FAILED"}

\* C16: for every pending order passed to delete_pending_orders exactly one
\* terminal event is written, whatever the broker answers: PENDING_DELETED if
\* some attempt returned DONE, else PENDING_DELETE_FAILED; and the returned
\* count is the number of PENDING_DELETED events.
C16_OneDeleteEventPerOrder ==
    fn.called = "delete_pending_orders" =>
        /\ \A k \in 1..Len(fn.orders) :
               /\ Cardinality(Terminal(DeleteEvents, fn.orders[k].ticket)) = 1
               /\ \A i \in Terminal(DeleteEvents, fn.orders[k].ticket) :
                      key_events[i].type = IF AnsweredDone(fn.orders[k].ticket)
                                           THEN "PENDING_DELETED"
                                           ELSE "PENDING_DELETE_FAILED"
        /\ fn.count = Cardinality({i \in 1..Len(key_events) :
                                      key_events[i].type = "PENDING_DELETED"})

\* a batch of which one order was deleted at the second attempt or not at all
C16_Witness ==
    /\ fn.called = "delete_pending_orders"
    /\ Len(fn.orders) > 1
    /\ fn.count > 0
    /\ \E i \in 1..Len(requests) : requests[i].result # TRADE_RETCODE_DONE

\* C17: every position for which secure_position (log_as_tp1_hit = True) or
\* Rule 2 sends a modify request gets exactly one terminal event, TP1_SECURED
\* or TP1_SECURE_FAILED, respectively SECOND_PRICE_SECURED or
\* SECOND_PRICE_SECURE_FAILED, whatever the broker answers.
C17_OneSecureEventPerPosition ==
    /\ (fn.called = "secure_position" /\ fn.log_as_tp1_hit) =>
           \A ticket \in RequestedTickets :
               Cardinality(Terminal({"TP1_SECURED", "TP1_SECURE_FAILED"}, ticket)) = 1
    /\ fn.called = "secure_second_price_positions" =>
           \A ticket \in RequestedTickets :
               Cardinality(Terminal({"SECOND_PRICE_SECURED",
                                     "SECOND_PRICE_SECURE_FAILED"}, ticket)) = 1

\* C19: a ticket is in secured_positions only if the broker answered DONE to
\* a modify request for it, or its stop-loss was seen at its entry price; an
\* attempt that fails does not add it.  (The tracker is empty before the call.)
C19_TrackedOnlyOnSuccess ==
    fn.called # "" =>
        \A ticket \in secured_positions :
            \/ \E i \in RequestsFor(ticket) :
                   /\ requests[i].action = TRADE_ACTION_SLTP
                   /\ requests[i].result = TRADE_RETCODE_DONE
            \/ \E k \in 1..Len(fn.positions) :
                   /\ fn.positions[k].ticket = ticket
                   /\ fn.positions[k].sl = fn.positions[k].price_open

\* a ticket is tracked after an attempt that failed and one that succeeded
C19_Witness ==
    /\ fn.called # ""
    /\ \E ticket \in secured_positions :
           /\ AnsweredDone(ticket)
           /\ \E i \in RequestsFor(ticket) : requests[i].result # TRADE_RETCODE_DONE

(***************************************************************************)
(* A dispatch and its requests.                                            *)
(***************************************************************************)
DispatchRequests(d) == d.first_request..d.last_request

\* the modify requests of the dispatch that the broker answered with the
\* invalid-stops code
InvalidStops(d) ==
    {i \in DispatchRequests(d) :
        /\ requests[i].action = TRADE_ACTION_SLTP
        /\ requests[i].result = TRADE_RETCODE_INVALID_STOPS}

\* the members of the group of the dispatch, as the cycle saw them
DispatchGroup(d) ==
    UNION {Members(cycle.position_groups[g].members) :
              g \in {h \in 1..Len(cycle.position_groups) :
                        cycle.position_groups[h].id = d.group_id}}

AttemptedIn(d, position) ==
    \/ position.ticket \in secured_positions
    \/ AlreadyAtEntry(position)
    \/ \E j \in DispatchRequests(d) : requests[j].ticket = position.ticket

QueryFailed == cycle.ran /\ cycle.positions_get # 0

TwoGroupTemplates ==
    << PositionTemplates[1],
       PositionTemplates[2],
       Position(5, ORDER_TYPE_BUY, 60, 110000, 109500, 110080, "G2_TP1"),
       Position(6, ORDER_TYPE_BUY, 60, 110000, 109500, 110600, "G2_TP2") >>

InitTwoGroups ==
    /\ book = TwoGroupTemplates
    /\ orders = <<>>
    /\ market = [symbol \in Symbols |-> 110005]
    /\ now = NowStart
    /\ test_mode \in BOOLEAN
    /\ signal_data_cache = {}
    /\ secured_positions = {}
    /\ tp1_hit_file = <<>>
    /\ tp1_hit_groups = {}
    /\ requests = <<>>
    /\ key_events = <<>>
    /\ dispatched = <<>>
    /\ cycle = NoCycle
    /\ running = TRUE
    /\ fn = None

SpecTwoGroups == InitTwoGroups /\ [][NextEntered]_vars

\* the tickets of the group that a cycle run on the positions b names g
RefersTo(b, g) ==
    LET position_groups == identify_position_groups(b)
    IN  UNION {Tickets(position_groups[i].members) :
                  i \in {j \in 1..Len(position_groups) : position_groups[j].id = g}}

StartedUp ==
    /\ secured_positions = {}
    /\ signal_data_cache = {}
    /\ tp1_hit_groups = SeqToSet(tp1_hit_file)

IsPrefix(a, b) == Len(a) <= Len(b) /\ SubSeq(b, 1, Len(a)) = a

HitPosition == fn.positions[1]

HitLevel == get_position_tp_level(HitPosition)

HitCached == CachedLevels(signal_data_cache, HitGroupId)

NextCached ==
    /\ HitLevel + 1 <= Len(HitCached)
    /\ HitCached[HitLevel + 1] # 0

EndsWith(s, suffix) ==
    /\ Len(s) >= Len(suffix)
    /\ SubSeq(s, Len(s) - Len(suffix) + 1, Len(s)) = suffix

\* the request is the combined modify of the position to level L + 1
CombinedModify(req) ==
    /\ req.action = TRADE_ACTION_SLTP
    /\ req.ticket = HitPosition.ticket
    /\ req.sl = HitPosition.price_open
    /\ req.tp = HitCached[HitLevel + 1]
    /\ EndsWith(req.comment, "_TP" \o LevelStr(HitLevel + 1))

C23_WitnessLastLevel ==
    /\ fn.called = "handle_tp_hit"
    /\ HitLevel = LastTpLevel
    /\ Len(HitCached) > LastTpLevel
    /\ ~IsOpen(book, HitPosition.ticket)

\* the position that a dispatch was started for, as the cycle saw it
DispatchedPosition(d) == CHOOSE position \in SeenPositions : position.ticket = d.ticket

\* the profit in units of 0.00001, and the minimum in pips
Profit(position) ==
    IF position.type = ORDER_TYPE_BUY
    THEN position.price_current - position.price_open
    ELSE position.price_open - position.price_current

StatedMinPips == IF cycle.test_mode THEN 1 ELSE 5

C25_WitnessYoung ==
    /\ cycle.ran
    /\ cycle.test_mode
    /\ cycle.positions_get = 0
    /\ Len(dispatched) = 0
    /\ Cardinality(SeenGroups) = 1
    /\ \E group \in SeenGroups : \E position \in Members(group) :
           /\ get_position_tp_level(position) = 1
           /\ ~Aged(position)
           /\ position.ticket \notin cycle.secured_positions
           /\ validate_signal_direction_logic(position, group)
           /\ position.tp # 0
           /\ Profit(position) >= 5 * get_pip_multiplier(position.symbol)

\* the step of the dispatch that a request belongs to: 1 the action on the
\* TP1 member, 2 the securing of the siblings, 3 the second-price resolution
StepOf(req) ==
    IF req.by \in {"close_position", "secure_and_progress_tp"} THEN 1
    ELSE IF req.by = "secure_position" THEN 2
    ELSE 3

SentTo(action, ticket) ==
    {i \in RequestsFor(ticket) : requests[i].action = action}

(***************************************************************************)
(* C29.  Every retry loop ends after a bounded number of requests per      *)
(* item, whatever the broker answers (requote, connection error, no result *)
(* or an exception, again and again): a call sends at most 3 modify        *)
(* requests for a position (securing, Rule 2, progress) and at most 2      *)
(* cancel requests for a pending order.                                    *)
(***************************************************************************)
C29_RetriesBounded ==
    fn.called # "" =>
        \A ticket \in RequestedTickets :
            /\ Cardinality(SentTo(TRADE_ACTION_SLTP, ticket)) <= 3
            /\ Cardinality(SentTo(TRADE_ACTION_REMOVE, ticket)) <= 2

\* a call used up its attempts for an item without one DONE
C29_Witness ==
    /\ fn.called \in {"secure_position", "secure_second_price_positions",
                      "secure_and_progress_tp", "delete_pending_orders"}
    /\ \E ticket \in RequestedTickets :
           /\ ~AnsweredDone(ticket)
           /\ \/ Cardinality(SentTo(TRADE_ACTION_SLTP, ticket)) = 3
              \/ Cardinality(SentTo(TRADE_ACTION_REMOVE, ticket)) = 2
           /\ \A i \in RequestsFor(ticket) :
                  requests[i].result \in {TRADE_RETCODE_REQUOTE, TRADE_RETCODE_CONNECTION,
                                          ResultNone, ResultException}

(***************************************************************************)
(* Rule 2 and the pending-order query                                      *)
(***************************************************************************)
\* the requests that Rule 2 sent in the dispatch
Rule2Requests(d) ==
    {i \in DispatchRequests(d) : requests[i].by = "secure_second_price_positions"}

C28_Rule2OnlyWithoutMatchingOrder ==
    \A k \in 1..Len(dispatched) :
        Rule2Requests(dispatched[k]) # {} =>
            \A member \in DispatchGroup(dispatched[k]) :
                cycle.orders_get => MatchingPending(<<member>>) = {}

(***************************************************************************)
(* Exceptions in a cycle                                                   *)
(***************************************************************************)
TicketsOf(positions) == [i \in 1..Len(positions) |-> positions[i].ticket]

\* the position comes after a position whose processing raised
AfterRaised(ticket) ==
    \E i, j \in 1..Len(cycle.positions) :
        /\ i < j
        /\ cycle.positions[i].ticket \in cycle.raised
        /\ cycle.positions[j].ticket = ticket

C24_WitnessCycleLevel ==
    /\ cycle.ran
    /\ cycle.aborted
    /\ running

(***************************************************************************)
(* The interrupt                                                           *)
(***************************************************************************)
\* the groups of the cycle that the dispatch is for
GroupsOfDispatch(d) ==
    {cycle.position_groups[g].members :
        g \in {h \in 1..Len(cycle.position_groups) :
                  cycle.position_groups[h].id = d.group_id}}

SiblingsAttempted(d) ==
    \A position \in DispatchGroup(d) :
        position.ticket # d.ticket => AttemptedIn(d, position)

\* Rule 1 for every matching pending order, or Rule 2 for every second-price
\* position when there is none
SecondPriceResolved(d) ==
    \A group \in GroupsOfDispatch(d) :
        /\ \A o \in MatchingPending(group) :
               \E j \in DispatchRequests(d) : requests[j].ticket = o.ticket
        /\ MatchingPending(group) = {} =>
               \A q \in SecondPrice(group) : AttemptedIn(d, q)

C26_DispatchFinishesUninterrupted ==
    \A k \in 1..Len(dispatched) :
        (cycle.ran /\ cycle.orders_get /\ ~dispatched[k].in_flight
                   /\ dispatched[k].tp1_ok) =>
            /\ SiblingsAttempted(dispatched[k])
            /\ SecondPriceResolved(dispatched[k])

\* the interrupt ends the loop, whatever the cycle was doing
C26_InterruptEndsTheLoop == cycle.interrupted <=> ~running

(***************************************************************************)
(* secure_position for a ticket that is no longer at the broker            *)
(***************************************************************************)
ClosedCall ==
    /\ fn.called = "secure_position"
    /\ ~IsOpen(book, fn.positions[1].ticket)
    /\ ~AlreadyAtEntry(fn.positions[1])

\* C30: when secure_position finds that the ticket no longer exists at the
\* broker, it sends no modify request, removes the ticket from
\* secured_positions, and does not count or report the case as a failure
\* (the error counter is not increased).
C30_ClosedTicketIsNoFailure ==
    ClosedCall =>
        /\ requests = <<>>
        /\ fn.positions[1].ticket \notin secured_positions
        /\ fn.errors = 0

\* no request is sent and the ticket is not tracked afterwards
C30_ClosedTicketDropped ==
    ClosedCall =>
        /\ requests = <<>>
        /\ fn.positions[1].ticket \notin secured_positions

\* the case is counted as one error and answered with False
C30_ClosedTicketCounted ==
    ClosedCall => (fn.errors = 1 /\ ~fn.ok)

(***************************************************************************)
(* The action on the TP1 member                                            *)
(***************************************************************************)
\* the dispatch took the progressive path
Progressive(d) ==
    should_handle_tp_progression(signal_data_cache, DispatchedPosition(d), d.group_id)

\* a take-profit is cached for the level after the one of the position
NextLevelCached(d) ==
    /\ get_position_tp_level(DispatchedPosition(d)) < LastTpLevel
    /\ get_next_tp_price(CachedLevels(signal_data_cache, d.group_id),
                         get_position_tp_level(DispatchedPosition(d)) + 1)
           \notin {NoPrice, 0}

CloseRequests(d) ==
    {i \in DispatchRequests(d) : requests[i].action = TRADE_ACTION_DEAL}

\* the TP1 member was sent a stop-loss modify to its entry with its own
\* take-profit
SecuredAtEntry(d) ==
    \E i \in DispatchRequests(d) :
        /\ requests[i].action = TRADE_ACTION_SLTP
        /\ requests[i].ticket = d.ticket
        /\ requests[i].sl = DispatchedPosition(d).price_open
        /\ requests[i].tp = DispatchedPosition(d).tp

C31_ProgressiveCloseAtLastLevel ==
    \A k \in 1..Len(dispatched) :
        (CloseRequests(dispatched[k]) # {} /\ Progressive(dispatched[k]))
            => ~NextLevelCached(dispatched[k])

\* the non-progressive path sends a close for the TP1 member and no modify
C31_NonProgressiveCloses ==
    \A k \in 1..Len(dispatched) :
        ~Progressive(dispatched[k]) =>
            /\ dispatched[k].tp1_ok => CloseRequests(dispatched[k]) # {}
            /\ ~SecuredAtEntry(dispatched[k])

(***************************************************************************)
(* A buy group and a sell group on the same instrument: the two sells are  *)
(* entered at 1.10500 with take-profits at 1.10200 and 1.10000.            *)
(***************************************************************************)
OppositeTemplates ==
    << PositionTemplates[1],
       PositionTemplates[2],
       Position(7, ORDER_TYPE_SELL, 60, 110500, 111000, 110200, "G2_TP1"),
       Position(8, ORDER_TYPE_SELL, 60, 110500, 111000, 110000, "G2_TP2") >>

InitOpposite ==
    /\ book = OppositeTemplates
    /\ orders = <<>>
    /\ market = [symbol \in Symbols |-> 110005]
    /\ now = NowStart
    /\ test_mode = TRUE
    /\ signal_data_cache = {}
    /\ secured_positions = {}
    /\ tp1_hit_file = <<>>
    /\ tp1_hit_groups = {}
    /\ requests = <<>>
    /\ key_events = <<>>
    /\ dispatched = <<>>
    /\ cycle = NoCycle
    /\ running = TRUE
    /\ fn = None

\* the process runs on, with the signal data never cached, while prices move
\* and positions are closed at the broker
NextOpposite ==
    \/ check_positions_entered
    \/ check_positions_closing
    \/ PriceMove
    \/ PositionClosed

SpecOpposite == InitOpposite /\ [][NextOpposite]_vars

SameKind(g, h) == g[1].symbol = h[1].symbol /\ g[1].type = h[1].type

\* the group is the first price level among the groups of two or more of its
\* own symbol and direction: the highest average entry for buys, the lowest
\* for sells
FirstAmongOwnKind(group) ==
    \A other \in SeenGroups :
        (MultiMember(other) /\ other # group /\ SameKind(other, group)) =>
            IF group[1].type = ORDER_TYPE_BUY
            THEN AvgLess(other, group)
            ELSE AvgLess(group, other)

\* the cycle ran to its end without a failed query, exception or interrupt
Undisturbed ==
    /\ cycle.ran
    /\ cycle.positions_get = 0
    /\ cycle.raised = {}
    /\ ~cycle.aborted
    /\ ~cycle.interrupted
    /\ cycle.closed = 0

DispatchedFor(position) ==
    \E k \in 1..Len(dispatched) : dispatched[k].ticket = position.ticket

C32_FirstPriceOfOneKind ==
    Undisturbed =>
        \A group \in SeenGroups : \A position \in Members(group) :
            (/\ DueTp1(position, group)
             /\ FirstAmongOwnKind(group)
             /\ \A other \in SeenGroups : MultiMember(other) => SameKind(other, group))
                => DispatchedFor(position)

(***************************************************************************)
(* The group lookup of a cycle                                             *)
(***************************************************************************)
\* a position that the cycle looks up: not tracked, old enough, in a group of
\* two or more, its stops on the right sides of its entry
LookedUp(position, group) ==
    /\ MultiMember(group)
    /\ position \in Members(group)
    /\ position.ticket \notin cycle.secured_positions
    /\ Aged(position)
    /\ validate_signal_direction_logic(position, group)

\* what the lookup has assigned when the trigger is tested
RankAndFirstPriceKnown(f, position) ==
    /\ f.position_index = get_position_tp_level(position)
    /\ f.first_id = get_true_first_price_group(cycle.position_groups).id

\* C33: in check_positions, for every position that is not yet secured, is
\* old enough and belongs to a multi-member group, the group lookup yields
\* that group, and the position's TP rank and the true-first-price group are
\* computed before the rule trigger is tested; so a rank-1 member of the
\* first-price group reaches the trigger evaluation.
C33_LookupBeforeTrigger ==
    cycle.ran =>
        \A group \in SeenGroups : \A position \in Members(group) :
            LookedUp(position, group) =>
                /\ FindGroup(position, cycle.position_groups).group = group
                /\ RankAndFirstPriceKnown(FindGroup(position, cycle.position_groups),
                                          position)

\* the lookup yields the group of the position
C33_LookupYieldsGroup ==
    cycle.ran =>
        \A group \in SeenGroups : \A position \in Members(group) :
            LookedUp(position, group) =>
                FindGroup(position, cycle.position_groups).group = group

\* the program as written never starts a dispatch
C33_NoDispatchAsWritten == dispatched = <<>> /\ requests = <<>>

\* with the block run behind the loop the rank and the first-price group are
\* known for every position looked up
C33_LookupWhenEntered ==
    cycle.ran =>
        \A group \in SeenGroups : \A position \in Members(group) :
            LookedUp(position, group) =>
                RankAndFirstPriceKnown(
                    FindGroupEntered(position, cycle.position_groups), position)

(***************************************************************************)
(* The trigger evaluation of check_positions and TEST_MODE                 *)
(***************************************************************************)
\* the production policy: within 3 pips of the take-profit, or at 80% of the
\* way in single-group mode
StatedProduction(pip) ==
    \/ StatedNear(pip)
    \/ (fn.position_groups_len = 1 /\ StatedProgress(pip))

\* C34: with test_mode false, the trigger evaluation in check_positions sets
\* should_act for a rank-1 position exactly under the production policy
\* (pips_to_tp <= 3, or progress >= 80% in single-group mode); the relaxed
\* test thresholds (within 10 pips, 25% progress, 1 pip gained) are applied
\* only when test_mode is true.
C34_ProductionPolicyWithoutTestMode ==
    (fn.called = "should_act" /\ fn.position.tp # 0 /\ ~fn.test_mode) =>
        (fn.should_secure <=> StatedProduction(PipOf(fn.called)))

\* with test_mode false should_act is never set
C34_NeverSetWithoutTestMode ==
    (fn.called = "should_act" /\ ~fn.test_mode) => ~fn.should_secure

\* with test_mode true the production policy is enough to set should_act
C34_ProductionEnoughInTestMode ==
    (/\ fn.called = "should_act" /\ fn.position.tp # 0 /\ fn.test_mode
     /\ StatedNear(PipOf(fn.called)))
        => fn.should_secure

(***************************************************************************)
(* The trigger decision at and past the take-profit                        *)
(***************************************************************************)
\* the decision of the called simulator for the position of the call at
\* another current price
DecisionAt(name, current_price) ==
    IF name = "us30"
    THEN us30_check_tp1_hit_conditions(fn.position, fn.group, current_price,
                                       fn.position_groups_len)
    ELSE progressive_check_tp1_hit_conditions(fn.position, fn.group, current_price,
                                              fn.position_groups_len)

\* distances by which the price moves on, in units of 0.000001
FurtherSteps == {1, 100, 400, 1000}

\* the call is one of a simulator for a rank-1 position with a take-profit
RankOneCall ==
    /\ fn.called \in Simulators
    /\ RankOf(fn.called) = 1
    /\ fn.position.tp # 0

\* C35: the trigger decision fires for a rank-1 position whose price has
\* reached or passed its take-profit (pips_to_tp <= 0), in single-group and
\* in multi-group mode alike; moving the price further in the profitable
\* direction never turns a firing decision into a non-firing one.
C35_FiresAtAndPastTakeProfit ==
    RankOneCall =>
        /\ StatedToTp <= 0 => fn.should_secure
        /\ fn.should_secure =>
               \A d \in FurtherSteps :
                   DecisionAt(fn.called,
                              Towards(fn.position.type, fn.current_price, d))

\* the same for the calls of MockPipSecureEA alone
C35_Us30FiresAtAndPast ==
    (RankOneCall /\ fn.called = "us30") =>
        /\ StatedToTp <= 0 => fn.should_secure
        /\ fn.should_secure =>
               \A d \in FurtherSteps :
                   DecisionAt(fn.called,
                              Towards(fn.position.type, fn.current_price, d))

\* MockProgressivePipSecureEA fires on the take-profit itself and up to 3.01
\* pips past it
C35_ProgressiveFiresNearTakeProfit ==
    (RankOneCall /\ fn.called = "progressive"
         /\ StatedToTp <= 0 /\ 100 * (-StatedToTp) <= pip_tolerance * PipOf(fn.called))
        => fn.should_secure

(***************************************************************************)
(* A position that has been progressed                                     *)
(***************************************************************************)
\* the position of the call carries the comment of a progressed position
\* (secure_and_progress_tp writes the new level behind "_TP") and the price
\* is within 3 pips short of its take-profit
ProgressedCallNearTp ==
    /\ fn.called = "progressive"
    /\ get_position_tp_level(fn.position) \in 2..LastTpLevel
    /\ fn.position.tp # 0
    /\ StatedToTp >= 0
    /\ StatedNear(PipOf(fn.called))

\* C36: after a position has been progressed from TP1 to TP2, when the price
\* later comes within 3 pips of its new take-profit the trigger fires for it
\* again and it is progressed to TP3, and so on until it is closed at the
\* last level; a progressed position is not permanently excluded from
\* further evaluation.
C36_ProgressedPositionFiresAgain ==
    ProgressedCallNearTp => fn.should_secure

\* the decision never fires for a position above level 1
C36_NeverAboveLevelOne ==
    (fn.called = "progressive" /\ get_position_tp_level(fn.position) # 1)
        => ~fn.should_secure

\* check_positions starts a dispatch for positions of level 1 only, and never
\* for a tracked one
C36_DispatchAtLevelOneOnly ==
    \A k \in 1..Len(dispatched) :
        /\ get_position_tp_level(DispatchedPosition(dispatched[k])) = 1
        /\ dispatched[k].ticket \notin cycle.secured_positions

\* a position that was progressed is on the book, above level 1 and, unless
\* the interrupt came first, tracked
C36_ProgressedIsTracked ==
    \A i \in 1..Len(requests) :
        (running /\ requests[i].by = "secure_and_progress_tp"
             /\ requests[i].result = TRADE_RETCODE_DONE
             /\ IsOpen(book, requests[i].ticket)) =>
            /\ requests[i].ticket \in secured_positions
            /\ \A j \in 1..Len(book) :
                   book[j].ticket = requests[i].ticket
                       => get_position_tp_level(book[j]) > 1

(***************************************************************************)
(* The groups of one identify_position_groups call                         *)
(***************************************************************************)
\* C37: the groups returned by one identify_position_groups call have
\* pairwise disjoint member sets and pairwise distinct ids: no ticket
\* belongs to two groups and no group replaces another one stored under the
\* same id.
C37_GroupsDisjointIdsDistinct ==
    \A call \in MainCalls : \A j, k \in 1..Len(call.position_groups) :
        j # k =>
            /\ call.position_groups[j].id # call.position_groups[k].id
            /\ Tickets(call.position_groups[j].members)
                   \cap Tickets(call.position_groups[k].members) = {}

\* a call returns two groups of one symbol and direction
C37_Witness ==
    \E call \in MainCalls : \E j, k \in 1..Len(call.position_groups) :
        /\ j # k
        /\ call.position_groups[j].id[1] = call.position_groups[k].id[1]
        /\ call.position_groups[j].id[2] = call.position_groups[k].id[2]

(***************************************************************************)
(* The grouping and the order of the snapshot                              *)
(***************************************************************************)
\* the orders in which the broker may list the positions of the snapshot
Listings(seq) ==
    {[i \in 1..Len(seq) |-> seq[f[i]]] :
        f \in {g \in [1..Len(seq) -> 1..Len(seq)] :
                  \A i, j \in 1..Len(seq) : i # j => g[i] # g[j]}}

MemberSets(position_groups) ==
    {Tickets(position_groups[k].members) : k \in 1..Len(position_groups)}

\* C38: the membership of the groups returned by identify_position_groups
\* depends only on the set of open positions, not on the order in which the
\* broker lists them: any permutation of the same snapshot (including
\* positions with equal open time, symbol and direction) gives the same
\* member sets.
C38_MembershipIgnoresOrder ==
    \A call \in MainCalls : \A listed \in Listings(fn.positions) :
        MemberSets(identify_position_groups(listed))
            = MemberSets(call.position_groups)

\* positions that differ in open time, symbol or direction are sorted
DistinctSortKeys ==
    \A i, j \in 1..Len(fn.positions) :
        i # j => <<fn.positions[i].time, fn.positions[i].symbol, fn.positions[i].type>>
                     # <<fn.positions[j].time, fn.positions[j].symbol,
                         fn.positions[j].type>>

\* the order matters only between positions of equal time, symbol and
\* direction
C38_OrderOfEqualKeysOnly ==
    \A call \in MainCalls : \A listed \in Listings(fn.positions) :
        DistinctSortKeys =>
            MemberSets(identify_position_groups(listed))
                = MemberSets(call.position_groups)

(***************************************************************************)
(* The two position queries of a cycle                                     *)
(***************************************************************************)
\* both position queries of the cycle were answered
BothQueried ==
    /\ cycle.ran
    /\ cycle.positions_get = 0
    /\ ~cycle.aborted

\* C39: within one check_positions cycle the groups used for the decisions
\* are derived from the same position snapshot as the list of positions that
\* the cycle iterates: a position closed or opened at the broker during the
\* cycle cannot make the iterated positions and the group membership
\* disagree.
C39_GroupsOfTheIteratedSnapshot ==
    BothQueried =>
        MemberSets(cycle.position_groups)
            = MemberSets(identify_position_groups(cycle.positions))

\* the groups are those of the iterated positions when no position is closed
\* between the two queries
C39_SameWhenNothingCloses ==
    (BothQueried /\ cycle.closed = 0) =>
        MemberSets(cycle.position_groups)
            = MemberSets(identify_position_groups(cycle.positions))

(***************************************************************************)
(* The account processes.  MultiAccountMonitor.run starts one process per  *)
(* account, and each process builds its own PipSecureEA.  fn holds the     *)
(* files the processes write, every line with the account whose process    *)
(* wrote it, and the tp1_hit_groups set in the memory of each process.     *)
(***************************************************************************)
\* the names of the accounts of the configuration
AccountNames == {"EA1", "EA2"}

\* log_key_event, line 318: the same path in every process
KeyEventsLog == <<"logs", "key_events.log">>

\* __init__, line 96
Tp1HitFile(account_name) == <<"logs", account_name, "tp1_hit_groups.txt">>

\* HeartbeatMonitor.__init__, line 26
HeartbeatFile(account_name) == <<"heartbeats", account_name, "_heartbeat.txt">>

Paths ==
    {KeyEventsLog}
    \cup {Tp1HitFile(account_name) : account_name \in AccountNames}
    \cup {HeartbeatFile(account_name) : account_name \in AccountNames}

\* the event types and the group ids the processes write
AccountEvents == {"TP1_SECURED", "PENDING_DELETED"}
AccountGroups == {"EURUSD_0_1"}

\* the model stops appending to a file at MaxLogLines lines
MaxLogLines == 3

\* open(path, 'a') and write: the line is added at the end of the file
AppendLine(files, path, account_name, text) ==
    [files EXCEPT ![path] = Append(@, [account |-> account_name, text |-> text])]

\* open(path, 'w') and write: the line replaces the file
WriteFile(files, path, account_name, text) ==
    [files EXCEPT ![path] = <<[account |-> account_name, text |-> text]>>]

\* lines 311-321, in the process of one account
account_log_key_event ==
    \E account_name \in AccountNames, event_type \in AccountEvents :
        /\ Len(fn.files[KeyEventsLog]) < MaxLogLines
        /\ fn' = [fn EXCEPT !.files = AppendLine(@, KeyEventsLog, account_name,
                                                  event_type)]
        /\ UNCHANGED <<book, orders, market, now, test_mode, signal_data_cache,
                       secured_positions, tp1_hit_groups, tp1_hit_file,
                       requests, key_events, dispatched, cycle, running>>

\* lines 391-400, in the process of one account
account_save_tp1_hit_group ==
    \E account_name \in AccountNames, group_id \in AccountGroups :
        /\ group_id \notin fn.tp1_hit_groups[account_name]
        /\ fn' = [fn EXCEPT
                    !.tp1_hit_groups[account_name] = @ \cup {group_id},
                    !.files = AppendLine(@, Tp1HitFile(account_name),
                                         account_name, group_id)]
        /\ UNCHANGED <<book, orders, market, now, test_mode, signal_data_cache,
                       secured_positions, tp1_hit_groups, tp1_hit_file,
                       requests, key_events, dispatched, cycle, running>>

\* lines 38-47, in the process of one account
account_update_heartbeat ==
    \E account_name \in AccountNames :
        /\ fn' = [fn EXCEPT !.files = WriteFile(@, HeartbeatFile(account_name),
                                                 account_name, "Last active")]
        /\ UNCHANGED <<book, orders, market, now, test_mode, signal_data_cache,
                       secured_positions, tp1_hit_groups, tp1_hit_file,
                       requests, key_events, dispatched, cycle, running>>

InitAccounts ==
    /\ fn = [files |-> [path \in Paths |-> <<>>],
             tp1_hit_groups |-> [account_name \in AccountNames |-> {}]]
    /\ book = <<>>
    /\ orders = <<>>
    /\ market = [symbol \in Symbols |-> 110005]
    /\ now = NowStart
    /\ test_mode = FALSE
    /\ signal_data_cache = {}
    /\ secured_positions = {}
    /\ tp1_hit_file = <<>>
    /\ tp1_hit_groups = {}
    /\ requests = <<>>
    /\ key_events = <<>>
    /\ dispatched = <<>>
    /\ cycle = NoCycle
    /\ running = TRUE

NextAccounts ==
    \/ account_log_key_event
    \/ account_save_tp1_hit_group
    \/ account_update_heartbeat

SpecAccounts == InitAccounts /\ [][NextAccounts]_vars

\* the accounts whose processes wrote a line of the file
Writers(path) == {fn.files[path][i].account : i \in 1..Len(fn.files[path])}

C40_OwnFilesOfOneAccount ==
    \A account_name \in AccountNames :
        /\ Writers(Tp1HitFile(account_name)) \subseteq {account_name}
        /\ Writers(HeartbeatFile(account_name)) \subseteq {account_name}

\* the key events log never holds a line of one account between two lines of
\* the other
C40_KeyEventsNeverInterleaved ==
    \A i, j, k \in 1..Len(fn.files[KeyEventsLog]) :
        (i < j /\ j < k) =>
            ~(/\ fn.files[KeyEventsLog][i].account = fn.files[KeyEventsLog][k].account
              /\ fn.files[KeyEventsLog][j].account # fn.files[KeyEventsLog][i].account)

====
